---- MODULE Spec2Model ----
(***************************************************************************)
(* EMM Attach procedure of the MME (SRC/NAS/EMM/Attach.c), for one UE      *)
(* context.  Every C function of Attach.c is an operator from the NAS      *)
(* state (a record St) to the NAS state; every event the NAS task takes    *)
(* from its mailbox is one action.  The functions Attach.c calls but does  *)
(* not define (the EMM FSM behind emm_sap_send, the procedure registry,    *)
(* the common procedures, the timer API, the context accessors) are        *)
(* modelled from the specification of the repository.  A handler's local   *)
(* steps are LET operators applied in the order of the C statements.       *)
(***************************************************************************)
EXTENDS Integers, Sequences, FiniteSets, TLC

VARIABLES
  conf_emergency,  \* _emm_data.conf.eps_network_feature_support: emergency bearer bit
  ctx,             \* the UE's emm_context_t
  proc,            \* emm_procedures->emm_specific_proc: the attach procedure, or NoProc
  common,          \* emm_procedures->emm_common_procs: the running common procedures
  t3450_running,   \* the timer task holds a running T3450 for this UE
  to_queue,        \* T3450 expiry messages in the NAS mailbox, not yet handled
  next_pid,        \* number given to the next procedure record (identity of an instance)
  fatal,           \* the AssertFatal the process died on, or "none"
  out,             \* the primitives and NAS messages sent by the last handled event
  ev,              \* the last handled event
  awaiting         \* an Attach Request was taken up and has had no Accept/Reject yet

vars == <<conf_emergency, ctx, proc, common, t3450_running, to_queue, next_pid,
          fatal, out, ev, awaiting>>

(***************************************************************************)
(* Bounds of the model.                                                    *)
(***************************************************************************)
MaxReq == 3
MaxPid == 3
MaxQueue == 1
MaxSecurityCalls == 1

ATTACH_COUNTER_MAX == 5

(***************************************************************************)
(* Attach Request IEs (emm_attach_request_ies_t).  A NULL pointer is       *)
(* "NONE".                                                                 *)
(***************************************************************************)
MkIes(type, ksi, guti, imsi, imei, esm, mac) ==
  [is_initial |-> TRUE, type |-> type, is_native_sc |-> TRUE, ksi |-> ksi,
   is_native_guti |-> TRUE, guti |-> guti, imsi |-> imsi, imei |-> imei,
   last_visited_registered_tai |-> "NONE", originating_tai |-> "T1",
   originating_ecgi |-> "C1", ue_network_capability |-> "CAP1",
   ms_network_capability |-> "NONE", drx_parameter |-> "NONE",
   esm_msg |-> esm, mac_matched |-> mac]

NoIes == MkIes("EPS", 0, "NONE", "NONE", "NONE", "NONE", FALSE)

\* The Attach Requests the UE sends in this model.
RequestIEs ==
  { MkIes("EPS", 0, "G1", "NONE", "NONE", "ESM1", FALSE),
    MkIes("EPS", 1, "G1", "NONE", "NONE", "ESM1", FALSE),
    MkIes("EPS", 0, "NONE", "I1", "NONE", "NONE", TRUE),
    MkIes("EPS", 0, "NONE", "I1", "NONE", "ESM1", FALSE),
    MkIes("EMERGENCY", 0, "NONE", "NONE", "E1", "NONE", FALSE) }

\* What mme_api_new_guti can return: "NONE" is RETURNerror, else the new GUTI.
NewGutiResults == {"NONE", "G2", "G3"}

\* What emm_sap_send(EMMAS_ESTABLISH_CNF) can return: TRUE is RETURNok, FALSE
\* is RETURNerror.
EmmasResults == BOOLEAN

\* What esm_sap_send leaves in esm_sap.err.
\* "FAILED_NO_PDU" is a failure for which ESM left no response in esm_sap.send;
\* it also stands for esm_sap_send returning RETURNerror with err SUCCESS, which
\* takes the same branch with no response PDU.
EsmResults == {"SUCCESS", "DISCARDED", "FAILED", "FAILED_NO_PDU"}

(***************************************************************************)
(* Records.                                                                *)
(***************************************************************************)
NoProc ==
  [pid |-> 0, ies |-> NoIes, guti |-> "NONE", emm_cause |-> "SUCCESS",
   attach_accept_sent |-> 0, attach_reject_sent |-> FALSE,
   attach_complete_received |-> FALSE, T3450 |-> "inactive",
   esm_msg_out |-> "NONE", fail_out |-> FALSE, abort |-> FALSE,
   time_out |-> FALSE,
   \* esm_pending: ESM has taken the PDN connectivity request of the instance
   \* and has not answered it yet (the state of the ESM task).
   \* The other fields are the history of the instance, read by the
   \* properties only; expiries counts the T3450 expiries handled for the
   \* instance after its first Attach Accept.
   expiries |-> 0,
   esm_pending |-> FALSE, ident_started |-> FALSE, ident_done |-> FALSE,
   auth_started |-> FALSE,
   auth_done |-> FALSE, smc_started |-> FALSE, smc_done |-> FALSE,
   esm_handoff |-> FALSE, accept_emitted |-> FALSE, retx |-> 0,
   last_accept_guti |-> "NONE", last_accept_esm |-> "NONE", quiet |-> FALSE]

\* smc_notif names the continuations the security mode control procedure was
\* started with: "cb" for _emm_attach_success_security_cb and
\* _emm_attach_failure_security_cb, "attach" for _emm_attach and
\* _emm_attach_release.
NoCommon ==
  [ident |-> FALSE, is_cause_is_attach |-> FALSE, auth |-> FALSE, smc |-> FALSE,
   smc_notif |-> "cb", previous_emm_fsm_state |-> "DEREGISTERED"]

\* guti_key is the GUTI under which the context store indexes this context
\* ("NONE": the GUTI index has no entry for it).
\* security_activated is the activation flag of the context's security context;
\* smc_complete_received tells whether the UE has answered Security Mode
\* Complete to the last Security Mode Command sent for this context.
\* security_calls counts the calls of emm_attach_security for the context.
InitCtx ==
  [emm_state |-> "DEREGISTERED", num_attach_request |-> 0, is_attached |-> FALSE,
   is_emergency |-> FALSE, ksi |-> 0, guti |-> "NONE", guti_present |-> FALSE,
   guti_valid |-> FALSE, old_guti |-> "NONE", old_guti_present |-> FALSE,
   imsi |-> "NONE", imei |-> "NONE", security_activated |-> FALSE,
   smc_complete_received |-> FALSE, guti_key |-> "NONE", security_calls |-> 0]

\* One sent primitive or NAS message.
Msg(prim, cause, guti, esm, notify, pid) ==
  [prim |-> prim, cause |-> cause, guti |-> guti, esm |-> esm, notify |-> notify,
   pid |-> pid, ciphered |-> FALSE, identity_type |-> "NONE"]

\* The NAS state the operators below transform.  rc is the last return code,
\* ret is set once the handler has returned early, snap holds the EMM state and
\* the timer as they were each time an EMMREG_ATTACH_REJ or EMMREG_ATTACH_ABORT
\* had been processed, req is the Attach Request being handled, dup is the
\* handler's local flag duplicate_enb_context_detected.
St ==
  [conf_emergency |-> conf_emergency, ctx |-> ctx, proc |-> proc, common |-> common,
   t3450_running |-> t3450_running, to_queue |-> to_queue, next_pid |-> next_pid,
   fatal |-> fatal, out |-> <<>>, rc |-> "RETURNerror", ret |-> FALSE,
   path |-> <<>>, snap |-> <<>>, req |-> NoIes, dup |-> FALSE]

Emit(s, m) == [s EXCEPT !.out = Append(@, m)]
SetRc(s, rc) == [s EXCEPT !.rc = rc]
Fatal(s, why) == [s EXCEPT !.fatal = IF @ = "none" THEN why ELSE @]
Path(s, path) == [s EXCEPT !.path = Append(@, path)]

(***************************************************************************)
(* Procedure registry (nas_procedures): queries and the attach slot.       *)
(***************************************************************************)
is_nas_specific_procedure_attach_running(s) == s.proc.pid # 0
is_nas_attach_accept_sent(p) == p.attach_accept_sent > 0
is_nas_attach_reject_sent(p) == p.attach_reject_sent
is_nas_attach_complete_received(p) == p.attach_complete_received
is_nas_common_procedure_smc_running(s) == s.common.smc
is_nas_common_procedure_identification_running(s) == s.common.ident

\* Timer API: nas_stop_T3450 and nas_start_T3450.  Stopping a timer does not
\* purge an expiry message the timer task has already queued.
nas_stop_T3450(s) ==
  [s EXCEPT !.proc.T3450 = "inactive", !.t3450_running = FALSE]
nas_start_T3450(s) ==
  [s EXCEPT !.proc.T3450 = "active", !.t3450_running = TRUE]

\* nas_delete_attach_procedure: clears the specific slot with its child common
\* procedures and frees its timer handle.
nas_delete_attach_procedure(s) ==
  [s EXCEPT !.proc = NoProc, !.common = NoCommon, !.t3450_running = FALSE]

emm_fsm_set_state(s, st) == [s EXCEPT !.ctx.emm_state = st]

Snap(s) ==
  [s EXCEPT !.snap = Append(@, [emm_state |-> s.ctx.emm_state,
                                armed |-> s.proc.T3450 = "active" \/ s.t3450_running])]


(***************************************************************************)
(* The inputs of one event that the environment decides: the result of     *)
(* mme_api_new_guti, the answer of ESM, whether the security mode control  *)
(* procedure could be initiated, what a read through a freed procedure     *)
(* record yields, and whether emm_sap_send accepts the EMMAS_ESTABLISH_CNF *)
(* that carries the Attach Accept (emmas_ok false: it returns RETURNerror  *)
(* and nothing goes to the UE).                                            *)
(***************************************************************************)
In(alloc, esm, smc_ok, uaf, emmas_ok) ==
  [alloc |-> alloc, esm |-> esm, smc_ok |-> smc_ok, uaf |-> uaf, emmas_ok |-> emmas_ok]

(***************************************************************************)
(* emm_as_set_security_data: sets up the security data of an EMMAS         *)
(* primitive.  The field ciphered of a message is the is_ciphered argument *)
(* the data were set up with: Attach.c tells through it alone whether the  *)
(* message is to go out ciphered, and tests no state of the security       *)
(* context before it does.                                                 *)
(***************************************************************************)
emm_as_set_security_data(s, is_new, is_ciphered) == is_ciphered

Secured(s, m) == [m EXCEPT !.ciphered = emm_as_set_security_data(s, FALSE, TRUE)]

(***************************************************************************)
(* _emm_attach_reject: sends ATTACH REJECT (EMMAS_ESTABLISH_REJ) for the   *)
(* procedure record p; live says that p is the record in the slot.         *)
(***************************************************************************)
_emm_attach_reject(s, p, live) ==
  LET cause == IF p.emm_cause = "SUCCESS" THEN "ILLEGAL_UE" ELSE p.emm_cause
      send(s1) ==
        IF cause # "ESM_FAILURE"
          THEN SetRc(Emit(s1, Secured(s1, Msg("EMMAS_ESTABLISH_REJ", cause, "NONE", "NONE",
                                              FALSE, p.pid))), "RETURNok")
        ELSE IF p.esm_msg_out # "NONE"
          THEN SetRc(Emit(s1, Secured(s1, Msg("EMMAS_ESTABLISH_REJ", cause, "NONE",
                                              p.esm_msg_out, FALSE, p.pid))), "RETURNok")
        ELSE SetRc(s1, "RETURNerror")
  IN  send(IF live THEN [s EXCEPT !.proc.emm_cause = cause] ELSE s)

(***************************************************************************)
(* emm_sap_send(EMMREG_ATTACH_REJ): the EMM FSM enters EMM-DEREGISTERED,   *)
(* runs the fail_out continuation of the procedure if it has one and, with *)
(* free_proc, deletes the attach procedure.  kind tells what the           *)
(* primitive's proc points to: the record in the slot ("live"), the        *)
(* handler's local dummy ("dummy"), nothing ("null") or a record already   *)
(* freed ("freed").  The read of fail_out through a freed record yields    *)
(* what the record held when it was freed, or, once the memory is in use   *)
(* again (in.uaf), a pointer that is no function: the process dies.        *)
(***************************************************************************)
emm_reg_attach_rej(s, p, kind, notify, free_proc, in) ==
  LET fail_out(s1) ==
        CASE kind = "live"  -> IF s1.proc.fail_out
                                 THEN _emm_attach_reject(s1, s1.proc, TRUE) ELSE s1
          [] kind = "dummy" -> IF p.fail_out THEN _emm_attach_reject(s1, p, FALSE) ELSE s1
          [] kind = "freed" -> IF in.uaf THEN Fatal(s1, "SIGSEGV")
                               ELSE IF p.fail_out THEN _emm_attach_reject(s1, p, FALSE)
                               ELSE s1
          [] OTHER          -> s1
      free(s2) == IF free_proc THEN nas_delete_attach_procedure(s2) ELSE s2
  IN  SetRc(Snap(free(fail_out(emm_fsm_set_state(
              Emit(s, Msg("EMMREG_ATTACH_REJ", p.emm_cause, "NONE", "NONE", notify, p.pid)),
              "DEREGISTERED")))), "RETURNok")

(***************************************************************************)
(* _emm_attach_abort: the abort continuation of the attach procedure.      *)
(***************************************************************************)
_emm_attach_abort(s, in) ==
  LET reject(s1) == emm_reg_attach_rej(s1, s1.proc, "live", TRUE, TRUE, in)
  IN  IF is_nas_specific_procedure_attach_running(s)
        THEN reject(Emit([s EXCEPT !.proc.esm_pending = FALSE],
                         Msg("ESM_PDN_CONNECTIVITY_REJ", "SUCCESS", "NONE", "NONE", FALSE,
                             s.proc.pid)))
        ELSE SetRc(s, "RETURNerror")

(***************************************************************************)
(* emm_sap_send(EMMREG_ATTACH_ABORT): stops T3450, fires the procedure's   *)
(* abort continuation, enters EMM-DEREGISTERED and, with free_proc,        *)
(* deletes the procedure.                                                  *)
(***************************************************************************)
emm_reg_attach_abort(s, notify, free_proc, in) ==
  LET abort(s1) == IF s1.proc.abort THEN _emm_attach_abort(s1, in) ELSE s1
      free(s2) == IF free_proc THEN nas_delete_attach_procedure(s2) ELSE s2
  IN  SetRc(Snap(free(emm_fsm_set_state(abort(nas_stop_T3450(
              Emit(s, Msg("EMMREG_ATTACH_ABORT", s.proc.emm_cause, "NONE", "NONE", notify,
                          s.proc.pid)))), "DEREGISTERED"))), "RETURNok")

\* emm_sap_send(EMMREG_ATTACH_CNF): the EMM FSM enters EMM-REGISTERED.
emm_reg_attach_cnf(s, pid, free_proc) ==
  LET free(s2) == IF free_proc THEN nas_delete_attach_procedure(s2) ELSE s2
  IN  SetRc(free(emm_fsm_set_state(
              Emit(s, Msg("EMMREG_ATTACH_CNF", "SUCCESS", "NONE", "NONE", TRUE, pid)),
              "REGISTERED")), "RETURNok")

(***************************************************************************)
(* Context accessors (emm_data_ctx).                                       *)
(***************************************************************************)
emm_ctx_clear_guti(s) ==
  [s EXCEPT !.ctx.guti = "NONE", !.ctx.guti_present = FALSE, !.ctx.guti_valid = FALSE]
emm_ctx_clear_old_guti(s) ==
  [s EXCEPT !.ctx.old_guti = "NONE", !.ctx.old_guti_present = FALSE]
emm_ctx_set_guti(s, g) ==
  [s EXCEPT !.ctx.guti = g, !.ctx.guti_present = TRUE, !.ctx.guti_valid = FALSE]
emm_ctx_set_valid_guti(s, g) ==
  [s EXCEPT !.ctx.guti = g, !.ctx.guti_present = TRUE, !.ctx.guti_valid = TRUE]
emm_ctx_set_old_guti(s, g) ==
  [s EXCEPT !.ctx.old_guti = g, !.ctx.old_guti_present = TRUE]
emm_ctx_clear_security(s) == [s EXCEPT !.ctx.security_activated = FALSE]

(***************************************************************************)
(* Context store: mme_ue_context_update_coll_keys rehashes the secondary   *)
(* indexes of the context; a NULL guti leaves the GUTI index as it is.     *)
(* mme_ue_context_exists_guti tells whether the lookup of g returns the    *)
(* context.                                                                *)
(***************************************************************************)
mme_ue_context_update_coll_keys(s, guti) ==
  IF guti # "NONE" THEN [s EXCEPT !.ctx.guti_key = guti] ELSE s

mme_ue_context_exists_guti(c, g) == g # "NONE" /\ c.guti_key = g

(***************************************************************************)
(* _emm_attach_release: clears the identities and the security contexts of *)
(* the EMM context.  It sends nothing and leaves the procedure in place.   *)
(***************************************************************************)
_emm_attach_release(s) ==
  SetRc(emm_ctx_clear_security(
          [emm_ctx_clear_guti(emm_ctx_clear_old_guti(s))
             EXCEPT !.ctx.imsi = "NONE", !.ctx.imei = "NONE"]), "RETURNerror")

(***************************************************************************)
(* _emm_attach_update: copies the IEs of the request into the EMM context. *)
(***************************************************************************)
_emm_attach_update(s, ies) ==
  LET guti(s1) == IF ies.guti # "NONE" /\ ies.guti # s1.ctx.old_guti
                    THEN mme_ue_context_update_coll_keys(
                           emm_ctx_set_old_guti(s1, ies.guti), ies.guti)
                    ELSE s1
      imsi(s2) == IF ies.imsi # "NONE" /\ ies.imsi # s2.ctx.imsi
                    THEN mme_ue_context_update_coll_keys(
                           [s2 EXCEPT !.ctx.imsi = ies.imsi], "NONE")
                    ELSE s2
      imei(s3) == IF ies.imei # "NONE" THEN [s3 EXCEPT !.ctx.imei = ies.imei] ELSE s3
  IN  SetRc(imei(imsi(guti([s EXCEPT !.ctx.is_emergency = (ies.type = "EMERGENCY"),
                                     !.ctx.ksi = ies.ksi]))), "RETURNok")

(***************************************************************************)
(* _emm_send_attach_accept: composes and sends ATTACH ACCEPT               *)
(* (EMMAS_ESTABLISH_CNF) and, unless emm_sap_send returned RETURNerror,    *)
(* stops and starts T3450.  The message carries the GUTI of the context as *)
(* new GUTI while that GUTI is present and not yet valid, and the ESM      *)
(* message stored in the procedure.  The result of emm_sap_send is the     *)
(* result of the function.                                                 *)
(***************************************************************************)
\* Variant of _emm_send_attach_accept that sends the Attach Accept without
\* restarting T3450.
_emm_send_attach_accept_no_timer(s, in) ==
  LET new_guti(c) == IF ~c.guti_valid /\ c.guti_present THEN c.guti ELSE "NONE"
      send(s2) ==
        IF ~in.emmas_ok THEN SetRc(Path(s2, "emmas_failed"), "RETURNerror")
        ELSE
        SetRc(Emit([s2 EXCEPT !.proc.accept_emitted = TRUE,
                              !.proc.quiet = IF s2.proc.accept_emitted THEN @ ELSE TRUE,
                              !.proc.last_accept_guti = new_guti(s2.ctx),
                              !.proc.last_accept_esm = s2.proc.esm_msg_out],
                   Secured(s2, Msg("EMMAS_ESTABLISH_CNF", "SUCCESS", new_guti(s2.ctx),
                                   s2.proc.esm_msg_out, FALSE, s2.proc.pid))), "RETURNok")
      guti(s1) ==
        IF s1.ctx.guti_present THEN send(s1)
        ELSE IF in.alloc = "NONE" THEN SetRc(s1, "RETURNerror")
        ELSE send(emm_ctx_set_guti(s1, in.alloc))
  IN  IF is_nas_specific_procedure_attach_running(s)
        THEN guti(_emm_attach_update(s, s.proc.ies))
        ELSE SetRc(s, "RETURNerror")

_emm_send_attach_accept(s, in) ==
  LET new_guti(c) == IF ~c.guti_valid /\ c.guti_present THEN c.guti ELSE "NONE"
      send(s2) ==
        IF ~in.emmas_ok THEN SetRc(Path(s2, "emmas_failed"), "RETURNerror")
        ELSE SetRc(nas_start_T3450(nas_stop_T3450(
          Emit([s2 EXCEPT !.proc.accept_emitted = TRUE,
                          !.proc.quiet = IF s2.proc.accept_emitted THEN @ ELSE TRUE,
                          !.proc.last_accept_guti = new_guti(s2.ctx),
                          !.proc.last_accept_esm = s2.proc.esm_msg_out],
               Secured(s2, Msg("EMMAS_ESTABLISH_CNF", "SUCCESS", new_guti(s2.ctx),
                               s2.proc.esm_msg_out, FALSE, s2.proc.pid))))), "RETURNok")
      guti(s1) ==
        IF s1.ctx.guti_present THEN send(s1)
        ELSE IF in.alloc = "NONE" THEN SetRc(s1, "RETURNerror")
        ELSE send(emm_ctx_set_guti(s1, in.alloc))
  IN  IF is_nas_specific_procedure_attach_running(s)
        THEN guti(_emm_attach_update(s, s.proc.ies))
        ELSE SetRc(s, "RETURNerror")

emm_cn_wrapper_attach_accept(s, in) == _emm_send_attach_accept(s, in)

\* Variant of _emm_attach that treats a DISCARDED status from ESM like any
\* other ESM error.
_emm_attach_discarded_rejects(s, in) ==
  LET reject(a) == _emm_attach_reject(a, a.proc, TRUE)
      esm(s1) ==
        CASE in.esm = "SUCCESS" -> SetRc([s1 EXCEPT !.proc.esm_pending = TRUE], "RETURNok")
          [] OTHER ->
               reject([s1 EXCEPT !.proc.emm_cause = "ESM_FAILURE",
                                 !.proc.ies.esm_msg = "NONE",
                                 !.proc.esm_msg_out =
                                    IF in.esm = "FAILED" THEN "ESMREJ" ELSE "NONE"])
      failed(a) == IF a.rc # "RETURNok"
                     THEN reject([a EXCEPT !.proc.emm_cause = "PROTOCOL_ERROR"]) ELSE a
  IN  IF ~is_nas_specific_procedure_attach_running(s)
        THEN SetRc(Fatal(s, "SIGSEGV"), "RETURNerror")
        ELSE failed(IF s.proc.ies.esm_msg # "NONE"
                      THEN esm(Path(Emit([s EXCEPT !.proc.esm_handoff = TRUE],
                                         Msg("ESM_UNITDATA_IND", "SUCCESS", "NONE",
                                             s.proc.ies.esm_msg, FALSE, s.proc.pid)),
                                    in.esm))
                      ELSE _emm_send_attach_accept(s, in))

(***************************************************************************)
(* _emm_attach: after the security mode control succeeded, hands the       *)
(* PDN connectivity request to ESM, or sends ATTACH ACCEPT when the        *)
(* request carried no ESM message.  The status ESM returned is noted in    *)
(* the path of the step.  Without an attach procedure rc is still          *)
(* RETURNerror at the final test, and the failure branch writes emm_cause  *)
(* through the NULL procedure pointer: the process dies (SIGSEGV).         *)
(***************************************************************************)
_emm_attach(s, in) ==
  LET reject(a) == _emm_attach_reject(a, a.proc, TRUE)
      esm(s1) ==
        CASE in.esm = "SUCCESS" -> SetRc([s1 EXCEPT !.proc.esm_pending = TRUE], "RETURNok")
          [] in.esm = "DISCARDED" -> SetRc(s1, "RETURNok")
          [] OTHER ->
               reject([s1 EXCEPT !.proc.emm_cause = "ESM_FAILURE",
                                 !.proc.ies.esm_msg = "NONE",
                                 !.proc.esm_msg_out =
                                    IF in.esm = "FAILED" THEN "ESMREJ" ELSE "NONE"])
      failed(a) == IF a.rc # "RETURNok"
                     THEN reject([a EXCEPT !.proc.emm_cause = "PROTOCOL_ERROR"]) ELSE a
  IN  IF ~is_nas_specific_procedure_attach_running(s)
        THEN SetRc(Fatal(s, "SIGSEGV"), "RETURNerror")
        ELSE failed(IF s.proc.ies.esm_msg # "NONE"
                      THEN esm(Path(Emit([s EXCEPT !.proc.esm_handoff = TRUE],
                                         Msg("ESM_UNITDATA_IND", "SUCCESS", "NONE",
                                             s.proc.ies.esm_msg, FALSE, s.proc.pid)),
                                    in.esm))
                      ELSE _emm_send_attach_accept(s, in))

(***************************************************************************)
(* Common procedures started by the attach procedure.  Starting one sends  *)
(* its request to the UE, registers it as a child of the attach procedure  *)
(* and moves the EMM FSM to EMM-COMMON-PROCEDURE-INITIATED.                *)
(***************************************************************************)
emm_common_proc_req(s) ==
  IF s.ctx.emm_state = "COMMON_PROCEDURE_INITIATED" THEN s
  ELSE [s EXCEPT !.common.previous_emm_fsm_state = s.ctx.emm_state,
                 !.ctx.emm_state = "COMMON_PROCEDURE_INITIATED"]

emm_proc_identification(s, type) ==
  SetRc(emm_common_proc_req(
          Emit([s EXCEPT !.common.ident = TRUE, !.common.is_cause_is_attach = TRUE,
                         !.proc.ident_started = TRUE],
               [Msg("IDENTITY_REQUEST", "SUCCESS", "NONE", "NONE", FALSE, s.proc.pid)
                  EXCEPT !.identity_type = type])),
        "RETURNok")

emm_proc_authentication(s) ==
  SetRc(emm_common_proc_req(
          Emit([s EXCEPT !.common.auth = TRUE, !.proc.auth_started = TRUE],
               Msg("AUTHENTICATION_REQUEST", "SUCCESS", "NONE", "NONE", FALSE, s.proc.pid))),
        "RETURNok")

emm_proc_security_mode_control(s, notif, in) ==
  IF in.smc_ok
    THEN SetRc(emm_common_proc_req(
                 Emit([s EXCEPT !.common.smc = TRUE, !.common.smc_notif = notif,
                                !.proc.smc_started = TRUE,
                                !.ctx.smc_complete_received = FALSE],
                      Msg("SECURITY_MODE_COMMAND", "SUCCESS", "NONE", "NONE", FALSE,
                          s.proc.pid))), "RETURNok")
    ELSE SetRc(s, "RETURNerror")

\* Completion of a common procedure: the EMM FSM returns to
\* EMM-REGISTERED-INITIATED on success, to the state the procedure started
\* from on failure.
emm_common_proc_cnf(s) == emm_fsm_set_state(s, "REGISTERED_INITIATED")
emm_common_proc_rej(s) == emm_fsm_set_state(s, s.common.previous_emm_fsm_state)

(***************************************************************************)
(* The continuations of the common procedures.                             *)
(***************************************************************************)
_emm_attach_success_security_cb(s, in) ==
  IF is_nas_specific_procedure_attach_running(s) THEN _emm_attach(s, in)
  ELSE SetRc(s, "RETURNerror")

_emm_attach_failure_security_cb(s) ==
  IF is_nas_specific_procedure_attach_running(s)
    THEN SetRc(_emm_attach_release(s), "RETURNerror")
    ELSE SetRc(s, "RETURNerror")

(***************************************************************************)
(* The security mode control procedure reports its end through the         *)
(* continuations it was started with.                                      *)
(***************************************************************************)
smc_success_notif(s, in) ==
  IF s.common.smc_notif = "attach"
    THEN _emm_attach([s EXCEPT !.common.smc_notif = "cb"], in)
    ELSE _emm_attach_success_security_cb(s, in)

smc_failure_notif(s) ==
  IF s.common.smc_notif = "attach"
    THEN _emm_attach_release([s EXCEPT !.common.smc_notif = "cb"])
    ELSE _emm_attach_failure_security_cb(s)

(***************************************************************************)
(* emm_attach_security: the public entry that starts the security mode     *)
(* control for the running attach procedure with _emm_attach and           *)
(* _emm_attach_release as continuations.                                   *)
(***************************************************************************)
_emm_attach_security(s, in) ==
  LET reject(s2) == emm_reg_attach_rej(s2, s2.proc, "live", TRUE, TRUE, in)
      started(s1) == IF s1.rc # "RETURNok"
                       THEN reject([s1 EXCEPT !.proc.emm_cause = "ILLEGAL_UE"]) ELSE s1
  IN  IF is_nas_specific_procedure_attach_running(s)
        THEN started(emm_proc_security_mode_control(emm_ctx_clear_security(s), "attach",
                                                    in))
        ELSE SetRc(s, "RETURNerror")

emm_attach_security(s, in) == _emm_attach_security(s, in)

_emm_start_attach_proc_security(s, in) ==
  LET reject(s2) == emm_reg_attach_rej(s2, s2.proc, "live", TRUE, TRUE, in)
      started(s1) == IF s1.rc # "RETURNok"
                       THEN reject([s1 EXCEPT !.proc.emm_cause = "ILLEGAL_UE"]) ELSE s1
  IN  IF is_nas_specific_procedure_attach_running(s)
        THEN started(emm_proc_security_mode_control(emm_ctx_clear_security(s), "cb", in))
        ELSE SetRc(s, "RETURNerror")

_emm_attach_success_authentication_cb(s, in) ==
  IF is_nas_specific_procedure_attach_running(s)
    THEN _emm_start_attach_proc_security(s, in)
    ELSE SetRc(s, "RETURNerror")

\* Variant of _emm_attach_failure_authentication_cb that asks the FSM to keep
\* the procedure (free_proc false).
_emm_attach_failure_authentication_cb_keeps_proc(s, in) ==
  IF is_nas_specific_procedure_attach_running(s)
    THEN emm_reg_attach_rej(s, s.proc, "live", TRUE, FALSE, in)
    ELSE SetRc(s, "RETURNerror")

_emm_attach_failure_authentication_cb(s, in) ==
  IF is_nas_specific_procedure_attach_running(s)
    THEN emm_reg_attach_rej(s, s.proc, "live", TRUE, TRUE, in)
    ELSE SetRc(s, "RETURNerror")

_emm_start_attach_proc_authentication(s) ==
  IF is_nas_specific_procedure_attach_running(s) THEN emm_proc_authentication(s)
  ELSE SetRc(s, "RETURNerror")

_emm_attach_success_identification_cb(s) ==
  IF is_nas_specific_procedure_attach_running(s)
    THEN _emm_start_attach_proc_authentication(s)
    ELSE SetRc(s, "RETURNerror")

_emm_attach_failure_identification_cb(s) ==
  SetRc(Fatal(s, "ident_failure_cb"), "RETURNerror")

\* Variant of _emm_attach_run_procedure that starts the authentication for
\* every request carrying an IMSI, whether its MAC matched or not.
_emm_attach_run_procedure_ignores_mac(s) ==
  IF ~is_nas_specific_procedure_attach_running(s) THEN SetRc(s, "RETURNerror")
  ELSE IF s.proc.ies.imsi # "NONE" THEN _emm_start_attach_proc_authentication(s)
  ELSE IF s.proc.ies.guti # "NONE" THEN emm_proc_identification(s, "IDENTITY_TYPE_2_IMSI")
  ELSE IF s.proc.ies.imei # "NONE" THEN SetRc(Fatal(s, "todo_emergency"), "RETURNerror")
  ELSE SetRc(s, "RETURNerror")

(***************************************************************************)
(* _emm_attach_run_procedure: chooses the first common procedure from the  *)
(* identity the request carries.                                           *)
(***************************************************************************)
_emm_attach_run_procedure(s) ==
  IF ~is_nas_specific_procedure_attach_running(s) THEN SetRc(s, "RETURNerror")
  ELSE IF s.proc.ies.imsi # "NONE"
    THEN IF s.proc.ies.mac_matched
           THEN _emm_start_attach_proc_authentication(s)
           ELSE emm_proc_identification(s, "IDENTITY_TYPE_2_IMSI")
  ELSE IF s.proc.ies.guti # "NONE" THEN emm_proc_identification(s, "IDENTITY_TYPE_2_IMSI")
  ELSE IF s.proc.ies.imei # "NONE" THEN SetRc(Fatal(s, "todo_emergency"), "RETURNerror")
  ELSE SetRc(s, "RETURNerror")

(***************************************************************************)
(* emm_sap_send(EMMREG_COMMON_PROC_ABORT) for the security mode control    *)
(* procedure: removes it, restores the EMM state it started from and       *)
(* invokes its failure continuation.                                       *)
(***************************************************************************)
emm_reg_common_proc_abort(s) ==
  smc_failure_notif(
    Emit([s EXCEPT !.common.smc = FALSE,
                   !.ctx.emm_state = s.common.previous_emm_fsm_state],
         Msg("EMMREG_COMMON_PROC_ABORT", "SUCCESS", "NONE", "NONE", FALSE, s.proc.pid)))

(***************************************************************************)
(* nas_new_attach_procedure: the new record, or no record (NULL) when the  *)
(* specific slot is taken.  The record is zeroed: its counters are 0, its  *)
(* guti field is the all-zero GUTI "G0" and it has no continuation; the    *)
(* caller installs abort, fail_in and time_out, and nothing installs       *)
(* fail_out on it.                                                         *)
(***************************************************************************)
nas_new_attach_procedure(s) ==
  IF s.proc.pid # 0 THEN NoProc
  ELSE [NoProc EXCEPT !.pid = s.next_pid, !.guti = "G0"]

(***************************************************************************)
(* _emm_proc_create_procedure_attach_request.                              *)
(***************************************************************************)
_emm_proc_create_procedure_attach_request(s, ies) ==
  LET link(attach_proc) ==
        IF attach_proc.pid = 0 THEN Fatal(s, "attach_proc_null")
        ELSE [s EXCEPT !.proc = [attach_proc EXCEPT !.ies = ies, !.abort = TRUE,
                                                    !.time_out = TRUE],
                       !.next_pid = @ + 1]
  IN  link(nas_new_attach_procedure(s))

\* Variant of _emm_attach_ies_have_changed that tests the presence of the IMSI
\* in one direction only.
_emm_attach_ies_have_changed_imsi_one_way(ies1, ies2) ==
  \/ ies1.type # ies2.type
  \/ ies1.is_native_sc # ies2.is_native_sc
  \/ ies1.ksi # ies2.ksi
  \/ ies1.is_native_guti # ies2.is_native_guti
  \/ (ies1.guti # "NONE") # (ies2.guti # "NONE")
  \/ (ies1.guti # "NONE" /\ ies2.guti # "NONE" /\ ies1.guti # ies2.guti)
  \/ (ies1.imsi # "NONE" /\ ies2.imsi = "NONE")
  \/ (ies1.guti # "NONE" /\ ies2.guti # "NONE" /\ ies1.guti # ies2.guti)
  \/ (ies1.imei # "NONE") # (ies2.imei # "NONE")
  \/ (ies1.imei # "NONE" /\ ies2.imei # "NONE" /\ ies1.imei # ies2.imei)
  \/ ies1.last_visited_registered_tai # ies2.last_visited_registered_tai
  \/ ies1.originating_tai # ies2.originating_tai
  \/ ies1.originating_ecgi # ies2.originating_ecgi
  \/ ies1.ue_network_capability # ies2.ue_network_capability
  \/ ies1.ms_network_capability # ies2.ms_network_capability

(***************************************************************************)
(* _emm_attach_ies_have_changed.  The IMSI values are never compared: the  *)
(* block that should compare them tests and compares the GUTIs again.      *)
(***************************************************************************)
_emm_attach_ies_have_changed(ies1, ies2) ==
  \/ ies1.type # ies2.type
  \/ ies1.is_native_sc # ies2.is_native_sc
  \/ ies1.ksi # ies2.ksi
  \/ ies1.is_native_guti # ies2.is_native_guti
  \/ (ies1.guti # "NONE") # (ies2.guti # "NONE")
  \/ (ies1.guti # "NONE" /\ ies2.guti # "NONE" /\ ies1.guti # ies2.guti)
  \/ (ies1.imsi # "NONE") # (ies2.imsi # "NONE")
  \/ (ies1.guti # "NONE" /\ ies2.guti # "NONE" /\ ies1.guti # ies2.guti)
  \/ (ies1.imei # "NONE") # (ies2.imei # "NONE")
  \/ (ies1.imei # "NONE" /\ ies2.imei # "NONE" /\ ies1.imei # ies2.imei)
  \/ ies1.last_visited_registered_tai # ies2.last_visited_registered_tai
  \/ ies1.originating_tai # ies2.originating_tai
  \/ ies1.originating_ecgi # ies2.originating_ecgi
  \/ ies1.ue_network_capability # ies2.ue_network_capability
  \/ ies1.ms_network_capability # ies2.ms_network_capability

(***************************************************************************)
(* emm_proc_attach_request, in the order of its blocks.  A block does      *)
(* nothing once the handler has returned (ret) or the process has died.    *)
(* path records the branches the request took.                             *)
(***************************************************************************)
Done(s) == s.ret \/ s.fatal # "none"
Return(s, rc, path) == [Path(s, path) EXCEPT !.ret = TRUE, !.rc = rc]

\* Variant of the emergency gate that rejects and then carries on with the
\* rest of the handler.
emm_proc_attach_request_emergency_no_return(s, ies, in) ==
  IF ~s.conf_emergency /\ ies.type = "EMERGENCY"
    THEN Path(emm_reg_attach_rej(s, [NoProc EXCEPT !.emm_cause = "IMEI_NOT_ACCEPTED",
                                                   !.fail_out = TRUE],
                                 "dummy", FALSE, FALSE, in),
              "emergency")
    ELSE s

\* Requirement MME24.301R10_5.5.1.1_1: the emergency gate.
emm_proc_attach_request_emergency(s, ies, in) ==
  IF ~s.conf_emergency /\ ies.type = "EMERGENCY"
    THEN Return(emm_reg_attach_rej(s, [NoProc EXCEPT !.emm_cause = "IMEI_NOT_ACCEPTED",
                                                     !.fail_out = TRUE],
                                   "dummy", FALSE, FALSE, in),
                "RETURNok", "emergency")
    ELSE s

\* Variant of the block below that leaves a running security mode control
\* procedure alone.
emm_proc_attach_request_smc_not_aborted(s) == s

\* R10_5_4_3_7_c: a security mode control procedure is running.
emm_proc_attach_request_smc(s) ==
  IF Done(s) \/ ~is_nas_common_procedure_smc_running(s) THEN s
  ELSE SetRc(emm_reg_common_proc_abort(s), s.rc)

\* mme_api_duplicate_enb_ue_s1ap_id_detected: the MME application removes one
\* of the two eNB associations of the context; the call is noted in the path.
mme_api_duplicate_enb_ue_s1ap_id_detected(s, which) == Path(s, which)

\* "if (duplicate_enb_context_detected) { ...detected(which); flag = false; }"
emm_proc_attach_request_reconcile(s, which) ==
  IF s.dup /\ which # "NONE"
    THEN [mme_api_duplicate_enb_ue_s1ap_id_detected(s, which) EXCEPT !.dup = FALSE]
    ELSE s

\* The context was found by GUTI or IMSI under another eNB key: an initial
\* request removes the new eNB association at once.
emm_proc_attach_request_duplicate(s, ies) ==
  IF ~s.dup THEN s
  ELSE IF ies.is_initial
    THEN emm_proc_attach_request_reconcile(Path(s, "duplicate"), "REMOVE_NEW_CONTEXT")
    ELSE Path(s, "duplicate")

\* The abort of the running procedure and the creation of the new one, in
\* abnormal cases d.1 and e.1 of both collision blocks; which is the eNB
\* association removed in between when a duplicate is still to be reconciled.
emm_proc_attach_request_renew(s, ies, notify, path, which, in) ==
  _emm_proc_create_procedure_attach_request(
    emm_proc_attach_request_reconcile(
      Path(emm_reg_attach_abort(s, notify, TRUE, in), path), which), ies)

\* R10_5_4_4_6_c and _d: an identification procedure is running.
emm_proc_attach_request_ident(s, ies, in) ==
  IF Done(s) \/ ~is_nas_common_procedure_identification_running(s) THEN s
  ELSE IF ~is_nas_specific_procedure_attach_running(s)
    THEN _emm_proc_create_procedure_attach_request(s, ies)
  ELSE IF is_nas_attach_accept_sent(s.proc) \/ is_nas_attach_reject_sent(s.proc) THEN s
  ELSE IF s.common.is_cause_is_attach
    THEN IF _emm_attach_ies_have_changed(ies, s.proc.ies)
           THEN emm_proc_attach_request_renew(s, ies, TRUE, "ident_d1", "NONE", in)
           ELSE Return(s, "RETURNok", "ident_d2")
  ELSE s

\* Variant of the block below that returns once case d.1 has aborted the old
\* procedure and created the new one.
emm_proc_attach_request_running_d1_returns(s, ies, in) ==
  LET restart(s2) == IF ~is_nas_attach_complete_received(s2.proc)
                       THEN nas_start_T3450(s2) ELSE s2
      case_d(s1) ==
        IF _emm_attach_ies_have_changed(ies, s1.proc.ies)
          THEN Return(emm_proc_attach_request_renew(s1, ies, TRUE, "d1", "REMOVE_OLD_CONTEXT", in),
                      "RETURNok", "return")
          ELSE Path(restart(_emm_send_attach_accept(nas_stop_T3450(s1), in)), "d2")
  IN  IF Done(s) \/ ~is_nas_specific_procedure_attach_running(s) THEN s
      ELSE IF is_nas_attach_accept_sent(s.proc) /\ ~is_nas_attach_complete_received(s.proc)
        THEN case_d([s EXCEPT !.ctx.num_attach_request = @ + 1])
      ELSE IF ~is_nas_attach_accept_sent(s.proc) /\ 1 <= s.ctx.num_attach_request
        THEN IF _emm_attach_ies_have_changed(ies, s.proc.ies)
               THEN emm_proc_attach_request_renew(s, ies, FALSE, "e1", "REMOVE_NEW_CONTEXT",
                                                  in)
               ELSE Return(s, "RETURNok", "e2")
      ELSE s

\* R10_5_5_1_2_7_d and _e: an attach procedure is running.
emm_proc_attach_request_running(s, ies, in) ==
  LET restart(s2) == IF ~is_nas_attach_complete_received(s2.proc)
                       THEN nas_start_T3450(s2) ELSE s2
      case_d(s1) ==
        IF _emm_attach_ies_have_changed(ies, s1.proc.ies)
          THEN emm_proc_attach_request_renew(s1, ies, TRUE, "d1", "REMOVE_OLD_CONTEXT", in)
          ELSE Path(restart(_emm_send_attach_accept(nas_stop_T3450(s1), in)), "d2")
  IN  IF Done(s) \/ ~is_nas_specific_procedure_attach_running(s) THEN s
      ELSE IF is_nas_attach_accept_sent(s.proc) /\ ~is_nas_attach_complete_received(s.proc)
        THEN case_d([s EXCEPT !.ctx.num_attach_request = @ + 1])
      ELSE IF ~is_nas_attach_accept_sent(s.proc) /\ 1 <= s.ctx.num_attach_request
        THEN IF _emm_attach_ies_have_changed(ies, s.proc.ies)
               THEN emm_proc_attach_request_renew(s, ies, FALSE, "e1", "REMOVE_NEW_CONTEXT",
                                                  in)
               ELSE Return(s, "RETURNok", "e2")
      ELSE s

\* Variant of the block below that creates the procedure without looking at
\* the specific slot first.
emm_proc_attach_request_create_unguarded(s, ies) ==
  LET create(s2) ==
        IF Done(s2) THEN s2
        ELSE _emm_proc_create_procedure_attach_request(Path(s2, "new"), ies)
      count(s1) ==
        IF Done(s1) THEN s1
        ELSE emm_proc_attach_request_reconcile(
               [s1 EXCEPT !.ctx.num_attach_request = @ + 1], "REMOVE_OLD_CONTEXT")
  IN  IF Done(s) THEN s
      ELSE create(count(IF s.ctx.emm_state = "REGISTERED"
                          THEN _emm_proc_create_procedure_attach_request(Path(s, "f"), ies)
                          ELSE s))

\* Variant of the block below that does not count the request.
emm_proc_attach_request_create_uncounted(s, ies) ==
  LET create(s2) ==
        IF Done(s2) \/ is_nas_specific_procedure_attach_running(s2) THEN s2
        ELSE _emm_proc_create_procedure_attach_request(Path(s2, "new"), ies)
  IN  IF Done(s) THEN s
      ELSE create(emm_proc_attach_request_reconcile(
                    IF s.ctx.emm_state = "REGISTERED"
                      THEN _emm_proc_create_procedure_attach_request(Path(s, "f"), ies)
                      ELSE s, "REMOVE_OLD_CONTEXT"))

\* R10_5_5_1_2_7_f, the request count, and the creation of the procedure when
\* none is running.
\* Variant of the block below that does not count the request in case f.
emm_proc_attach_request_create_f_uncounted(s, ies) ==
  LET create(s2) ==
        IF Done(s2) \/ is_nas_specific_procedure_attach_running(s2) THEN s2
        ELSE _emm_proc_create_procedure_attach_request(Path(s2, "new"), ies)
      count(s1) ==
        IF Done(s1) THEN s1
        ELSE emm_proc_attach_request_reconcile(
               [s1 EXCEPT !.ctx.num_attach_request = @ + 1], "REMOVE_OLD_CONTEXT")
  IN  IF Done(s) THEN s
      ELSE create(IF s.ctx.emm_state = "REGISTERED"
                    THEN emm_proc_attach_request_reconcile(
                           _emm_proc_create_procedure_attach_request(Path(s, "f"), ies),
                           "REMOVE_OLD_CONTEXT")
                    ELSE count(s))

emm_proc_attach_request_create(s, ies) ==
  LET create(s2) ==
        IF Done(s2) \/ is_nas_specific_procedure_attach_running(s2) THEN s2
        ELSE _emm_proc_create_procedure_attach_request(Path(s2, "new"), ies)
      count(s1) ==
        IF Done(s1) THEN s1
        ELSE emm_proc_attach_request_reconcile(
               [s1 EXCEPT !.ctx.num_attach_request = @ + 1], "REMOVE_OLD_CONTEXT")
  IN  IF Done(s) THEN s
      ELSE create(count(IF s.ctx.emm_state = "REGISTERED"
                          THEN _emm_proc_create_procedure_attach_request(Path(s, "f"), ies)
                          ELSE s))

emm_proc_attach_request_run(s) ==
  IF Done(s) THEN s ELSE _emm_attach_run_procedure(s)

\* The handler when none of its lookups (ue_id, GUTI, IMSI, eNB key) finds a
\* context: nothing creates one, and the else branch of "if (ue_mm_context)"
\* is AssertFatal(0, "Should not go create a new context here").
emm_proc_attach_request_no_context(s, ies) ==
  Fatal(Path(s, "no_context"), "no_context")

emm_proc_attach_request(s, ies, in) ==
  emm_proc_attach_request_run(
    emm_proc_attach_request_create(
      emm_proc_attach_request_running(
        emm_proc_attach_request_ident(
          emm_proc_attach_request_smc(
            emm_proc_attach_request_emergency(
              emm_proc_attach_request_duplicate(s, ies), ies, in)), ies, in), ies, in),
      ies))

(***************************************************************************)
(* emm_proc_attach_reject: the MME application rejects the attach.         *)
(***************************************************************************)
emm_proc_attach_reject(s, emm_cause, in) ==
  LET reject(s1) == emm_reg_attach_rej(s1, s1.proc, "live", FALSE, TRUE, in)
  IN  IF is_nas_specific_procedure_attach_running(s)
        THEN reject([s EXCEPT !.proc.emm_cause = emm_cause])
        ELSE SetRc(s, "RETURNerror")

\* Variant of emm_proc_attach_complete that leaves is_attached as it was.
emm_proc_attach_complete_not_attached(s, in) ==
  LET notify(s1, err, kind) ==
        IF s1.rc # "RETURNerror" /\ err = "SUCCESS"
          THEN emm_reg_attach_cnf(s1, s.proc.pid, TRUE)
        ELSE IF err # "DISCARDED"
          THEN emm_reg_attach_rej(Path(s1, kind), s.proc, kind, TRUE, TRUE, in)
        ELSE SetRc(s1, "RETURNok")
      keys(s2) == mme_ue_context_update_coll_keys(s2, s2.ctx.guti)
  IN  IF is_nas_specific_procedure_attach_running(s)
        THEN notify(SetRc(Path(Emit(emm_ctx_clear_old_guti(keys(
                                      nas_delete_attach_procedure(
                                        emm_ctx_set_valid_guti(s, s.proc.guti)))),
                                    Msg("ESM_DEFAULT_EPS_BEARER_CONTEXT_ACTIVATE_CNF",
                                        "SUCCESS", "NONE", "NONE", FALSE, s.proc.pid)),
                               in.esm),
                          IF in.esm = "SUCCESS" THEN "RETURNok" ELSE "RETURNerror"),
                    in.esm, "freed")
        ELSE notify(SetRc(s, "RETURNerror"), "SUCCESS", "null")

(***************************************************************************)
(* emm_proc_attach_complete.  in.esm is what ESM answers to the Activate   *)
(* Default EPS Bearer Context Accept carried by the message.  The procedure*)
(* record is deleted before the EMMREG primitive that still points to it   *)
(* is sent.  The path of the step notes the status ESM returned and, for   *)
(* an EMMREG_ATTACH_REJ, what its procedure pointer refers to.             *)
(***************************************************************************)
emm_proc_attach_complete(s, in) ==
  LET notify(s1, err, kind) ==
        IF s1.rc # "RETURNerror" /\ err = "SUCCESS"
          THEN emm_reg_attach_cnf([s1 EXCEPT !.ctx.is_attached = TRUE], s.proc.pid, TRUE)
        ELSE IF err # "DISCARDED"
          THEN emm_reg_attach_rej(Path(s1, kind), s.proc, kind, TRUE, TRUE, in)
        ELSE SetRc(s1, "RETURNok")
      keys(s2) == mme_ue_context_update_coll_keys(s2, s2.ctx.guti)
  IN  IF is_nas_specific_procedure_attach_running(s)
        THEN notify(SetRc(Path(Emit(emm_ctx_clear_old_guti(keys(
                                      nas_delete_attach_procedure(
                                        emm_ctx_set_valid_guti(s, s.proc.guti)))),
                                    Msg("ESM_DEFAULT_EPS_BEARER_CONTEXT_ACTIVATE_CNF",
                                        "SUCCESS", "NONE", "NONE", FALSE, s.proc.pid)),
                               in.esm),
                          IF in.esm = "SUCCESS" THEN "RETURNok" ELSE "RETURNerror"),
                    in.esm, "freed")
        ELSE notify(SetRc(s, "RETURNerror"), "SUCCESS", "null")

\* Variant of _emm_attach_t3450_handler without the abort on exhaustion: every
\* expiry retransmits.
_emm_attach_t3450_handler_no_abort(s, in) ==
  LET resent(s2) == IF s2.rc = "RETURNok" THEN [s2 EXCEPT !.proc.retx = @ + 1] ELSE s2
  IN  IF is_nas_specific_procedure_attach_running(s)
        THEN resent(_emm_send_attach_accept(
                      [s EXCEPT !.proc.T3450 = "inactive",
                                !.proc.attach_accept_sent = @ + 1], in))
        ELSE s

\* Variant of _emm_attach_t3450_handler that compares the counter with <=.
_emm_attach_t3450_handler_one_more(s, in) ==
  LET resent(s2) == IF s2.rc = "RETURNok" THEN [s2 EXCEPT !.proc.retx = @ + 1] ELSE s2
      expired(s1) ==
        IF s1.proc.attach_accept_sent <= ATTACH_COUNTER_MAX
          THEN resent(_emm_send_attach_accept(s1, in))
          ELSE emm_reg_attach_abort(s1, TRUE, TRUE, in)
  IN  IF is_nas_specific_procedure_attach_running(s)
        THEN expired([s EXCEPT !.proc.T3450 = "inactive",
                               !.proc.attach_accept_sent = @ + 1])
        ELSE s

(***************************************************************************)
(* _emm_attach_t3450_handler.                                              *)
(***************************************************************************)
_emm_attach_t3450_handler(s, in) ==
  LET resent(s2) == IF s2.rc = "RETURNok" THEN [s2 EXCEPT !.proc.retx = @ + 1] ELSE s2
      expired(s1) ==
        IF s1.proc.attach_accept_sent < ATTACH_COUNTER_MAX
          THEN resent(_emm_send_attach_accept(s1, in))
          ELSE emm_reg_attach_abort(s1, TRUE, TRUE, in)
  IN  IF is_nas_specific_procedure_attach_running(s)
        THEN expired([s EXCEPT !.proc.T3450 = "inactive",
                               !.proc.attach_accept_sent = @ + 1])
        ELSE s

(***************************************************************************)
(* The state machine.                                                      *)
(***************************************************************************)
Init ==
  /\ conf_emergency \in BOOLEAN
  /\ ctx = InitCtx
  /\ proc = NoProc
  /\ common = NoCommon
  /\ t3450_running = FALSE
  /\ to_queue = 0
  /\ next_pid = 1
  /\ fatal = "none"
  /\ out = <<>>
  /\ ev = [name |-> "Init", path |-> <<>>, snap |-> <<>>, req |-> NoIes]
  /\ awaiting = FALSE

DefaultIn == In("G2", "SUCCESS", TRUE, FALSE, TRUE)

\* A message from the UE ends the silence that followed the Attach Accept.
FromUe(s) == [s EXCEPT !.proc.quiet = FALSE]

Has(o, prims) == \E i \in 1..Len(o) : o[i].prim \in prims

Answered(o) == Has(o, {"EMMAS_ESTABLISH_CNF", "EMMAS_ESTABLISH_REJ", "EMMREG_ATTACH_REJ"})

\* The request awaits its answer unless it was dropped as a duplicate or was
\* answered in the handler itself (emergency gate, resent Attach Accept).
Taken(r) ==
  /\ r.path \notin {<<"e2">>, <<"ident_d2">>, <<"emergency">>}
  /\ ~(r.path = <<"d2">> /\ Answered(r.out))

Commit(r, name, taken) ==
  /\ conf_emergency' = r.conf_emergency
  /\ ctx' = r.ctx
  /\ proc' = r.proc
  /\ common' = r.common
  /\ t3450_running' = r.t3450_running
  /\ to_queue' = r.to_queue
  /\ next_pid' = r.next_pid
  /\ fatal' = r.fatal
  /\ out' = r.out
  /\ ev' = [name |-> name, path |-> r.path, snap |-> r.snap, req |-> r.req]
  /\ awaiting' = IF taken THEN TRUE
                 ELSE IF Answered(r.out) THEN FALSE ELSE awaiting

CommitRequest(r) == Commit(r, "AttachRequest", Taken(r))

\* The handling r met an emm_sap_send(EMMAS_ESTABLISH_CNF) that returned
\* RETURNerror.
SendFailed(r) == \E i \in 1..Len(r.path) : r.path[i] = "emmas_failed"

\* The step of a handler in which that send was reached and refused.
CommitSendFailed(r, name, taken) == SendFailed(r) /\ Commit(r, name, taken)

\* The handlers below are taken over an EMM-AS SAP that accepts the Attach
\* Accept (emmas_ok true); their steps with a refused send are the actions
\* of SendFailNext.
AttachRequest ==
  /\ fatal = "none"
  /\ ctx.num_attach_request < MaxReq
  /\ next_pid <= MaxPid
  /\ \E ies \in RequestIEs, alloc \in NewGutiResults :
       CommitRequest(emm_proc_attach_request([FromUe(St) EXCEPT !.req = ies], ies,
                                             In(alloc, "SUCCESS", TRUE, FALSE, TRUE)))

\* An Attach Request whose context was found by GUTI or IMSI under another eNB
\* key, received as an initial message or not.  A flag still set when the
\* handler returns is noted at the end of the path.
AttachRequestDuplicate ==
  /\ fatal = "none"
  /\ ctx.num_attach_request < MaxReq
  /\ next_pid <= MaxPid
  /\ \E ies0 \in RequestIEs, initial \in BOOLEAN, alloc \in NewGutiResults :
       LET ies == [ies0 EXCEPT !.is_initial = initial]
           left(r) == IF r.dup THEN Path(r, "duplicate_left") ELSE r
       IN  /\ ies.guti # "NONE" \/ ies.imsi # "NONE"
           /\ CommitRequest(left(emm_proc_attach_request(
                                   [FromUe(St) EXCEPT !.req = ies, !.dup = TRUE], ies,
                                   In(alloc, "SUCCESS", TRUE, FALSE, TRUE))))

\* An Attach Request of a UE for which the context store holds no context,
\* taken as the first message the process handles.
AttachRequestUnknownUe ==
  /\ fatal = "none"
  /\ ev.name = "Init"
  /\ \E ies \in RequestIEs :
       Commit(emm_proc_attach_request_no_context([St EXCEPT !.req = ies], ies),
              "AttachRequestUnknownUe", FALSE)

AttachComplete ==
  /\ fatal = "none"
  /\ \E esm \in {"SUCCESS", "DISCARDED", "FAILED"}, uaf \in BOOLEAN :
       Commit(emm_proc_attach_complete(FromUe(St), In("G2", esm, TRUE, uaf, TRUE)),
              "AttachComplete", FALSE)

AttachRejectReq ==
  /\ fatal = "none"
  /\ is_nas_specific_procedure_attach_running(St)
  /\ \E cause \in {"ESM_FAILURE", "NETWORK_FAILURE"} :
       Commit(emm_proc_attach_reject(St, cause, DefaultIn), "AttachRejectReq", FALSE)

IdentityResponse ==
  /\ fatal = "none"
  /\ common.ident
  /\ Commit(_emm_attach_success_identification_cb(emm_common_proc_cnf(
              [FromUe(St) EXCEPT !.common.ident = FALSE, !.proc.ident_done = TRUE,
                                 !.ctx.imsi = "I1"])),
            "IdentityResponse", FALSE)

IdentificationFailure ==
  /\ fatal = "none"
  /\ common.ident
  /\ Commit(_emm_attach_failure_identification_cb(emm_common_proc_rej(
              [St EXCEPT !.common.ident = FALSE])),
            "IdentificationFailure", FALSE)

AuthenticationResponse ==
  /\ fatal = "none"
  /\ common.auth
  /\ \E smc_ok \in BOOLEAN :
       Commit(_emm_attach_success_authentication_cb(emm_common_proc_cnf(
                [FromUe(St) EXCEPT !.common.auth = FALSE, !.proc.auth_done = TRUE]),
                In("G2", "SUCCESS", smc_ok, FALSE, TRUE)),
              "AuthenticationResponse", FALSE)

AuthenticationFailure ==
  /\ fatal = "none"
  /\ common.auth
  /\ Commit(_emm_attach_failure_authentication_cb(emm_common_proc_rej(
              [FromUe(St) EXCEPT !.common.auth = FALSE]), DefaultIn),
            "AuthenticationFailure", FALSE)

\* The security mode control procedure on Security Mode Complete: it
\* activates the security context and ends, before its success continuation
\* runs.
emm_proc_security_mode_complete(s) ==
  [s EXCEPT !.common.smc = FALSE, !.proc.smc_done = TRUE,
            !.ctx.security_activated = TRUE, !.ctx.smc_complete_received = TRUE]

SecurityModeComplete ==
  /\ fatal = "none"
  /\ common.smc
  /\ \E esm \in EsmResults, alloc \in NewGutiResults :
       Commit(smc_success_notif(emm_common_proc_cnf(
                emm_proc_security_mode_complete(FromUe(St))),
                In(alloc, esm, TRUE, FALSE, TRUE)),
              "SecurityModeComplete", FALSE)

SecurityModeReject ==
  /\ fatal = "none"
  /\ common.smc
  /\ Commit(smc_failure_notif(emm_common_proc_rej(
              [FromUe(St) EXCEPT !.common.smc = FALSE])),
            "SecurityModeReject", FALSE)

\* The handler of ESM's answer to the PDN connectivity request, which is not
\* part of Attach.c: it stores the response PDU in the procedure and has the
\* Attach Accept sent through emm_cn_wrapper_attach_accept.  _emm_attach
\* itself stores and sends nothing when ESM returns SUCCESS.
emm_cn_pdn_connectivity_res(s, in) ==
  emm_cn_wrapper_attach_accept(
    [s EXCEPT !.proc.esm_pending = FALSE, !.proc.esm_msg_out = "ESM2"], in)

\* ESM answers a PDN connectivity request it has accepted and not yet answered.
EsmPdnConnectivityRes ==
  /\ fatal = "none"
  /\ proc.esm_pending
  /\ \E alloc \in NewGutiResults :
       Commit(emm_cn_pdn_connectivity_res(St, In(alloc, "SUCCESS", TRUE, FALSE, TRUE)),
              "EsmPdnConnectivityRes", FALSE)

\* The timer task: a running T3450 expires and queues its expiry message.
T3450Fire ==
  /\ fatal = "none"
  /\ t3450_running
  /\ to_queue < MaxQueue
  /\ t3450_running' = FALSE
  /\ to_queue' = to_queue + 1
  /\ ev' = [name |-> "T3450Fire", path |-> <<>>, snap |-> <<>>, req |-> NoIes]
  /\ out' = <<>>
  /\ UNCHANGED <<conf_emergency, ctx, proc, common, next_pid, fatal, awaiting>>

\* The NAS task takes an expiry message from its mailbox.  The event is marked
\* "unanswered" when the UE has sent nothing since the first Attach Accept of
\* the running procedure, and it is counted in expiries when the procedure
\* has had an Attach Accept sent.
T3450Handle ==
  /\ fatal = "none"
  /\ to_queue > 0
  /\ \E alloc \in NewGutiResults :
       Commit(_emm_attach_t3450_handler(
                [St EXCEPT !.to_queue = @ - 1,
                           !.proc.expiries = IF proc.accept_emitted THEN @ + 1 ELSE @,
                           !.path = IF proc.quiet THEN <<"unanswered">> ELSE <<>>],
                In(alloc, "SUCCESS", TRUE, FALSE, TRUE)),
              "T3450Handle", FALSE)

Next ==
  \/ AttachRequest
  \/ AttachRequestUnknownUe
  \/ AttachComplete
  \/ AttachRejectReq
  \/ IdentityResponse
  \/ IdentificationFailure
  \/ AuthenticationResponse
  \/ AuthenticationFailure
  \/ SecurityModeComplete
  \/ SecurityModeReject
  \/ EsmPdnConnectivityRes
  \/ T3450Fire
  \/ T3450Handle

Spec == Init /\ [][Next]_vars

\* The UE answers every request of a common procedure, with a success or with a
\* failure; ESM answers; a running timer expires and its expiry is handled.
Fairness ==
  /\ WF_vars(IdentityResponse \/ IdentificationFailure)
  /\ WF_vars(AuthenticationResponse \/ AuthenticationFailure)
  /\ WF_vars(SecurityModeComplete \/ SecurityModeReject)
  /\ WF_vars(EsmPdnConnectivityRes)
  /\ WF_vars(T3450Fire)
  /\ WF_vars(T3450Handle)

FairSpec == Spec /\ Fairness

(***************************************************************************)
(* The NAS task over an EMM-AS SAP that may refuse the Attach Accept: each *)
(* handler that reaches _emm_send_attach_accept has a second step in which *)
(* emm_sap_send(EMMAS_ESTABLISH_CNF) returns RETURNerror.                  *)
(***************************************************************************)
\* A refused send in emm_proc_attach_request is the resend of case d.2: the
\* request is left without answer.
AttachRequestSendFails ==
  /\ fatal = "none"
  /\ ctx.num_attach_request < MaxReq
  /\ next_pid <= MaxPid
  /\ \E ies \in RequestIEs, alloc \in NewGutiResults :
       CommitSendFailed(emm_proc_attach_request([FromUe(St) EXCEPT !.req = ies], ies,
                                                In(alloc, "SUCCESS", TRUE, FALSE, FALSE)),
                        "AttachRequest", TRUE)

SecurityModeCompleteSendFails ==
  /\ fatal = "none"
  /\ common.smc
  /\ \E esm \in EsmResults, alloc \in NewGutiResults :
       CommitSendFailed(smc_success_notif(emm_common_proc_cnf(
                          emm_proc_security_mode_complete(FromUe(St))),
                          In(alloc, esm, TRUE, FALSE, FALSE)),
                        "SecurityModeComplete", FALSE)

EsmPdnConnectivityResSendFails ==
  /\ fatal = "none"
  /\ proc.esm_pending
  /\ \E alloc \in NewGutiResults :
       CommitSendFailed(emm_cn_pdn_connectivity_res(
                          St, In(alloc, "SUCCESS", TRUE, FALSE, FALSE)),
                        "EsmPdnConnectivityRes", FALSE)

T3450HandleSendFails ==
  /\ fatal = "none"
  /\ to_queue > 0
  /\ \E alloc \in NewGutiResults :
       CommitSendFailed(_emm_attach_t3450_handler(
                          [St EXCEPT !.to_queue = @ - 1,
                                     !.proc.expiries =
                                        IF proc.accept_emitted THEN @ + 1 ELSE @,
                                     !.path = IF proc.quiet THEN <<"unanswered">> ELSE <<>>],
                          In(alloc, "SUCCESS", TRUE, FALSE, FALSE)),
                        "T3450Handle", FALSE)

SendFailNext ==
  \/ Next
  \/ AttachRequestSendFails
  \/ SecurityModeCompleteSendFails
  \/ EsmPdnConnectivityResSendFails
  \/ T3450HandleSendFails

SendFailSpec == Init /\ [][SendFailNext]_vars

(***************************************************************************)
(* The NAS task with a caller of the public entry emm_attach_security.     *)
(***************************************************************************)
\* The caller invokes it at most MaxSecurityCalls times for the context.
AttachSecurity ==
  /\ fatal = "none"
  /\ ctx.security_calls < MaxSecurityCalls
  /\ \E smc_ok \in BOOLEAN :
       Commit(emm_attach_security([St EXCEPT !.ctx.security_calls = @ + 1],
                                  In("G2", "SUCCESS", smc_ok, FALSE, TRUE)),
              "AttachSecurity", FALSE)

SecurityNext == Next \/ AttachSecurity

SecuritySpec == Init /\ [][SecurityNext]_vars

(***************************************************************************)
(* Properties.                                                             *)
(***************************************************************************)
T3450Armed == proc.T3450 = "active" \/ t3450_running

AttachAnswers == {"EMMAS_ESTABLISH_REJ", "EMMREG_ATTACH_REJ", "EMMREG_ATTACH_ABORT"}

\* The event aborted the running procedure and created the next one.
Renewed == \E i \in 1..Len(ev.path) : ev.path[i] \in {"d1", "e1", "ident_d1"}

\* C1: the EMM context holds at most one specific Attach procedure (the slot
\* proc), and _emm_proc_create_procedure_attach_request is never executed
\* while the slot is taken: its assertion on the new record never fails.
C1_CreateNeverOnTakenSlot == fatal # "attach_proc_null"

\* An Attach Request with changed IEs aborted the procedure whose Attach Accept
\* was out and created the second procedure in the same handler.
C1_Witness ==
  /\ ev.name = "AttachRequest"
  /\ ev.path = <<"d1">>
  /\ proc.pid = 2
  /\ fatal = "none"

\* C2: every Attach Request that is not dropped as a duplicate is eventually
\* answered with an Attach Accept (EMMAS_ESTABLISH_CNF) or an Attach Reject
\* (EMMAS_ESTABLISH_REJ, EMMREG_ATTACH_REJ), when the UE, ESM and the timers
\* keep answering.
C2_RequestEventuallyAnswered == awaiting ~> ~awaiting

\* C3: within one procedure instance, authentication starts only after the
\* identification succeeded or was skipped (IMSI present, MAC matched),
\* security mode control only after the authentication succeeded, the ESM
\* hand-off only after security mode control succeeded, and no Attach Accept
\* is emitted before security mode control succeeded.
C3_SubProcedureOrder ==
  proc.pid # 0 =>
    /\ proc.auth_started =>
         (proc.ident_done \/ (proc.ies.imsi # "NONE" /\ proc.ies.mac_matched))
    /\ proc.smc_started => proc.auth_done
    /\ proc.esm_handoff => proc.smc_done
    /\ proc.accept_emitted => proc.smc_done

\* C4: attach_accept_sent stays within 0..ATTACH_COUNTER_MAX and never
\* decreases while the same procedure instance lives.
C4_CounterBoundedMonotone ==
  /\ [](proc.attach_accept_sent \in 0..ATTACH_COUNTER_MAX)
  /\ [][(proc'.pid = proc.pid /\ proc.pid # 0) =>
          proc'.attach_accept_sent >= proc.attach_accept_sent]_vars

\* The counter of a live procedure after its fourth expiry.
C4_Witness ==
  /\ ev.name = "T3450Handle"
  /\ proc.pid # 0
  /\ proc.attach_accept_sent = ATTACH_COUNTER_MAX - 1

\* C5: when the Attach Accept of a procedure has been sent and the UE stays
\* silent, each of the first four T3450 expiries handled for the procedure
\* after that Accept resends the Attach Accept and restarts T3450, the fifth
\* sends no Attach Accept and aborts the procedure with EMMREG_ATTACH_ABORT
\* (notify = true); a procedure never sees more than four retransmissions
\* driven by expiries.  proc.expiries is the number of expiries handled
\* before this one since the first Attach Accept of the procedure.
C5_T3450Exhaustion ==
  /\ [](proc.retx <= ATTACH_COUNTER_MAX - 1)
  /\ [][(/\ ev'.name = "T3450Handle" /\ proc.pid # 0 /\ proc.accept_emitted
         /\ proc.quiet) =>
          IF proc.expiries < ATTACH_COUNTER_MAX - 1
            THEN /\ Has(out', {"EMMAS_ESTABLISH_CNF"})
                 /\ ~Has(out', {"EMMREG_ATTACH_ABORT"})
                 /\ proc'.pid = proc.pid
                 /\ proc'.T3450 = "active" /\ t3450_running'
            ELSE /\ ~Has(out', {"EMMAS_ESTABLISH_CNF"})
                 /\ \E i \in 1..Len(out') :
                      out'[i].prim = "EMMREG_ATTACH_ABORT" /\ out'[i].notify
                 /\ proc' = NoProc]_vars

\* C6: between two events, T3450 is armed if and only if an Attach procedure
\* exists whose Attach Accept has been sent and whose Attach Complete has not
\* been received.
C6_T3450ArmedIffAcceptPending ==
  T3450Armed <=>
    (proc.pid # 0 /\ proc.accept_emitted /\ ~proc.attach_complete_received)

\* C7: once an Attach Reject or an Attach Abort has been processed, the EMM
\* state is DEREGISTERED and T3450 is not armed.  ev.snap holds the state
\* right after each EMMREG_ATTACH_REJ and EMMREG_ATTACH_ABORT of the event;
\* the state at the end of the event counts unless the event went on with a
\* new procedure.
C7_RejectLeavesDeregistered ==
  /\ \A i \in 1..Len(ev.snap) :
       ev.snap[i].emm_state = "DEREGISTERED" /\ ~ev.snap[i].armed
  /\ (Has(out, AttachAnswers) /\ ~Renewed) =>
       (ctx.emm_state = "DEREGISTERED" /\ ~T3450Armed)

\* C8: once Attach Complete handling has emitted EMMREG_ATTACH_CNF, the
\* context is EMM-REGISTERED, is_attached is true, its GUTI is valid and no
\* Attach procedure is left in the registry.
C8_ConfirmedAttachState ==
  (ev.name = "AttachComplete" /\ Has(out, {"EMMREG_ATTACH_CNF"})) =>
    /\ ctx.emm_state = "REGISTERED"
    /\ ctx.is_attached
    /\ ctx.guti_present /\ ctx.guti_valid
    /\ proc = NoProc

\* An Attach Complete has been confirmed.
C8_Witness ==
  /\ ev.name = "AttachComplete"
  /\ Has(out, {"EMMREG_ATTACH_CNF"})
  /\ ctx.emm_state = "REGISTERED"

\* C9: the GUTI sent in the Attach Accept stays present and not valid in the
\* context until Attach Complete; after Attach Complete the valid GUTI of the
\* context is the GUTI the Attach Accept carried and the old GUTI is cleared.
C9_GutiValidOnComplete ==
  /\ []((proc.pid # 0 /\ proc.last_accept_guti # "NONE") =>
          (ctx.guti_present /\ ~ctx.guti_valid /\ ctx.guti = proc.last_accept_guti))
  /\ [][(ev'.name = "AttachComplete" /\ proc.pid # 0 /\ proc.last_accept_guti # "NONE"
           /\ proc' = NoProc) =>
          /\ ctx'.guti_valid
          /\ ctx'.guti = proc.last_accept_guti
          /\ ~ctx'.old_guti_present]_vars

\* C10: an Attach Request with the IEs of the running procedure, whose Attach
\* Accept has been sent and whose Attach Complete has not been received, stops
\* T3450, resends the Attach Accept with the same GUTI and the same ESM PDU,
\* restarts T3450 and leaves attach_accept_sent as it was.
C10_DuplicateRequestResendsAccept ==
  [][(/\ ev'.name = "AttachRequest"
      /\ proc.pid # 0
      /\ proc.accept_emitted
      /\ ~proc.attach_complete_received
      /\ ~_emm_attach_ies_have_changed(ev'.req, proc.ies)) =>
       /\ \E i \in 1..Len(out') :
            /\ out'[i].prim = "EMMAS_ESTABLISH_CNF"
            /\ out'[i].guti = proc.last_accept_guti
            /\ out'[i].esm = proc.last_accept_esm
       /\ proc'.pid = proc.pid
       /\ proc'.T3450 = "active" /\ t3450_running'
       /\ proc'.attach_accept_sent = proc.attach_accept_sent]_vars

\* The emergency gate rejects this request before it is classified.
EmergencyGate(ies) == ~conf_emergency /\ ies.type = "EMERGENCY"

\* The request of a first common procedure was sent for procedure pid.
RunStarted(o, pid) ==
  \E i \in 1..Len(o) :
    o[i].pid = pid /\ o[i].prim \in {"IDENTITY_REQUEST", "AUTHENTICATION_REQUEST"}

NasMessages ==
  {"EMMAS_ESTABLISH_CNF", "EMMAS_ESTABLISH_REJ", "IDENTITY_REQUEST",
   "AUTHENTICATION_REQUEST", "SECURITY_MODE_COMMAND"}

\* C11: abnormal case d.1.  An Attach Request whose IEs differ from those of
\* the running procedure, whose Attach Accept has been sent and whose Attach
\* Complete has not been received, issues EMMREG_ATTACH_ABORT for the old
\* procedure, creates a new procedure holding the new IEs and runs it in the
\* same handling.
C11_ChangedRequestAbortsAndRuns ==
  [][(/\ ev'.name = "AttachRequest"
      /\ proc.pid # 0
      /\ proc.accept_emitted
      /\ ~proc.attach_complete_received
      /\ ~EmergencyGate(ev'.req)
      /\ _emm_attach_ies_have_changed(ev'.req, proc.ies)) =>
       /\ \E i \in 1..Len(out') :
            out'[i].prim = "EMMREG_ATTACH_ABORT" /\ out'[i].pid = proc.pid
       /\ proc'.pid \notin {0, proc.pid}
       /\ proc'.ies = ev'.req
       /\ (RunStarted(out', proc'.pid) \/ fatal' = "todo_emergency")]_vars

\* Case d.1 has aborted the procedure whose Attach Accept was out and the new
\* procedure has sent the request of its first common procedure.
C11_Witness ==
  /\ ev.name = "AttachRequest"
  /\ ev.path = <<"d1">>
  /\ \E i \in 1..Len(out) : out[i].prim = "EMMREG_ATTACH_ABORT" /\ out[i].notify
  /\ proc.ies = ev.req
  /\ RunStarted(out, proc.pid)

\* C12: abnormal case e.2.  An Attach Request with the IEs of the running
\* procedure, received while no Attach Accept has been sent and one request
\* at least was counted, is dropped: num_attach_request, the procedure
\* record, the running common procedures and the timers stay as they were
\* and no NAS message is emitted.
C12_DuplicateBeforeAcceptIsDropped ==
  [][(/\ ev'.name = "AttachRequest"
      /\ proc.pid # 0
      /\ ~proc.accept_emitted
      /\ ctx.num_attach_request >= 1
      /\ ~EmergencyGate(ev'.req)
      /\ ~_emm_attach_ies_have_changed(ev'.req, proc.ies)) =>
       /\ ctx'.num_attach_request = ctx.num_attach_request
       /\ proc' = proc
       /\ common' = common
       /\ t3450_running' = t3450_running
       /\ ~Has(out', NasMessages)]_vars

\* C13: while no Attach Accept has been sent, a procedure, whatever the
\* number of identical Attach Requests it receives, starts at most one
\* identification, one authentication and one security mode control.
C13_CommonProceduresStartedOnce ==
  [][(proc.pid # 0 /\ proc'.pid = proc.pid /\ ~proc'.accept_emitted) =>
       \A i \in 1..Len(out') :
         /\ out'[i].prim = "IDENTITY_REQUEST" => ~proc.ident_started
         /\ out'[i].prim = "AUTHENTICATION_REQUEST" => ~proc.auth_started
         /\ out'[i].prim = "SECURITY_MODE_COMMAND" => ~proc.smc_started]_vars

CommonProcedureRequests ==
  {"IDENTITY_REQUEST", "AUTHENTICATION_REQUEST", "SECURITY_MODE_COMMAND"}

\* C14: an Attach Request of type EMERGENCY that arrives while the MME
\* configuration has no emergency bearer services is answered at once with
\* EMMREG_ATTACH_REJ carrying cause IMEI_NOT_ACCEPTED; the registry keeps the
\* slot it had (no procedure is created), no common procedure is started,
\* num_attach_request keeps its value and the handler returns there.
C14_EmergencyGateRejects ==
  [][(ev'.name = "AttachRequest" /\ EmergencyGate(ev'.req)) =>
       /\ \E i \in 1..Len(out') :
            out'[i].prim = "EMMREG_ATTACH_REJ" /\ out'[i].cause = "IMEI_NOT_ACCEPTED"
       /\ proc' = [proc EXCEPT !.quiet = FALSE]
       /\ common' = common
       /\ ctx'.num_attach_request = ctx.num_attach_request
       /\ ~Has(out', CommonProcedureRequests)
       /\ ev'.path = <<"emergency">>]_vars

\* An emergency request was rejected at the gate while an attach procedure of
\* an earlier request was in the registry.
C14_Witness ==
  /\ ev.name = "AttachRequest" /\ ev.path = <<"emergency">>
  /\ \E i \in 1..Len(out) :
       out[i].prim = "EMMREG_ATTACH_REJ" /\ out[i].cause = "IMEI_NOT_ACCEPTED"
  /\ proc.pid # 0

RegAndEsmPrimitives ==
  {"EMMREG_ATTACH_CNF", "EMMREG_ATTACH_REJ", "EMMREG_ATTACH_ABORT",
   "EMMREG_COMMON_PROC_ABORT", "ESM_DEFAULT_EPS_BEARER_CONTEXT_ACTIVATE_CNF",
   "ESM_PDN_CONNECTIVITY_REJ", "ESM_UNITDATA_IND"}

\* C15: an Attach Complete that arrives while the context has no attach
\* procedure running is discarded silently: the handler sends no EMMREG and no
\* ESM primitive and leaves every field of the context as it was.
C15_StrayCompleteDiscarded ==
  [][(ev'.name = "AttachComplete" /\ proc.pid = 0) =>
       /\ ~Has(out', RegAndEsmPrimitives)
       /\ ctx' = ctx]_vars

\* C16: when the authentication failure continuation runs while an attach
\* procedure is in the registry, EMMREG_ATTACH_REJ is sent for that procedure,
\* the Attach Reject sent for it carries cause ILLEGAL_UE if the procedure had
\* no cause set, and afterwards the context is in EMM-DEREGISTERED and the
\* registry holds no attach procedure.
C16_AuthenticationFailureRejects ==
  [][(ev'.name = "AuthenticationFailure" /\ proc.pid # 0) =>
       /\ \E i \in 1..Len(out') :
            out'[i].prim = "EMMREG_ATTACH_REJ" /\ out'[i].pid = proc.pid
       /\ (proc.emm_cause = "SUCCESS" =>
             \E i \in 1..Len(out') : /\ out'[i].prim = "EMMAS_ESTABLISH_REJ"
                                     /\ out'[i].pid = proc.pid
                                     /\ out'[i].cause = "ILLEGAL_UE")
       /\ ctx'.emm_state = "DEREGISTERED"
       /\ proc' = NoProc]_vars

AttachNasMessages == {"EMMAS_ESTABLISH_CNF", "EMMAS_ESTABLISH_REJ"}

IesIdentities ==
  { MkIes("EPS", 0, g, i, e, "NONE", FALSE) :
      g \in {"NONE", "G1", "G2"}, i \in {"NONE", "I1", "I2"}, e \in {"NONE", "E1", "E2"} }

\* Every identity combination, as it is and with one of the other compared
\* fields, or the ESM message container, set to another value (a NULL pointer
\* for the optional ones).
IesVariants(b) ==
  { b,
    [b EXCEPT !.type = "EMERGENCY"],
    [b EXCEPT !.is_native_sc = FALSE],
    [b EXCEPT !.ksi = 1],
    [b EXCEPT !.is_native_guti = FALSE],
    [b EXCEPT !.last_visited_registered_tai = "T2"],
    [b EXCEPT !.originating_tai = "NONE"],
    [b EXCEPT !.originating_ecgi = "NONE"],
    [b EXCEPT !.ue_network_capability = "CAP2"],
    [b EXCEPT !.ms_network_capability = "MS1"],
    [b EXCEPT !.esm_msg = "ESM1"] }

IesSnapshots == UNION { IesVariants(b) : b \in IesIdentities }

Bool(b) == IF b THEN "true" ELSE "false"

IesInit ==
  /\ conf_emergency = FALSE
  /\ ctx = InitCtx
  /\ \E a \in IesSnapshots : proc = [NoProc EXCEPT !.ies = a]
  /\ common = NoCommon
  /\ t3450_running = FALSE
  /\ to_queue = 0
  /\ next_pid = 1
  /\ fatal = "none"
  /\ out = <<>>
  /\ \E b \in IesSnapshots : ev = [name |-> "Init", path |-> <<>>, snap |-> <<>>, req |-> b]
  /\ awaiting = FALSE

IesUnchanged ==
  UNCHANGED <<conf_emergency, ctx, proc, common, t3450_running, to_queue, next_pid,
              fatal, out, awaiting>>

\* The call of emm_proc_attach_request: received snapshot against stored one.
IesCompare ==
  /\ ev.name = "Init"
  /\ ev' = [ev EXCEPT !.name = "IesCompare",
                      !.path = <<Bool(_emm_attach_ies_have_changed(ev.req, proc.ies))>>]
  /\ IesUnchanged

IesCompareSwapped ==
  /\ ev.name = "IesCompare"
  /\ ev' = [ev EXCEPT !.name = "IesCompareSwapped",
                      !.path = Append(@, Bool(_emm_attach_ies_have_changed(proc.ies, ev.req)))]
  /\ IesUnchanged

IesCompareSelf ==
  /\ ev.name = "IesCompareSwapped"
  /\ ev' = [ev EXCEPT !.name = "IesCompareSelf",
                      !.path = Append(@, Bool(_emm_attach_ies_have_changed(ev.req, ev.req)))]
  /\ IesUnchanged

IesNext ==
  \/ IesCompare
  \/ IesCompareSwapped
  \/ IesCompareSelf

IesSpec == IesInit /\ [][IesNext]_vars

\* C18: for every pair of IE snapshots, _emm_attach_ies_have_changed gives the
\* same result in both argument orders, and a snapshot compared with itself
\* has not changed.
C18_IesChangeSymmetricIrreflexive ==
  /\ Len(ev.path) >= 2 => ev.path[1] = ev.path[2]
  /\ Len(ev.path) >= 3 => ev.path[3] = "false"

\* A pair that differs in the presence of the IMSI only was compared in both
\* orders and with itself.
C18_Witness ==
  /\ ev.name = "IesCompareSelf"
  /\ ev.path = <<"true", "true", "false">>
  /\ ev.req.imsi = "NONE" /\ proc.ies.imsi # "NONE"
  /\ [ev.req EXCEPT !.imsi = proc.ies.imsi] = proc.ies

\* A request was dropped when the last branch it took is one that ignores it.
Dropped(path) == Len(path) > 0 /\ path[Len(path)] \in {"e2", "ident_d2"}

\* C19: an Attach Request that is neither dropped as a duplicate nor rejected
\* at the emergency gate raises num_attach_request by exactly one, whatever
\* branch of the handler it takes.
C19_RequestCountedOnce ==
  [][(ev'.name = "AttachRequest" /\ ~EmergencyGate(ev'.req) /\ ~Dropped(ev'.path)) =>
       ctx'.num_attach_request = ctx.num_attach_request + 1]_vars

\* C20: between two handlers, whenever the registry of the context holds an
\* attach procedure, num_attach_request of the context is at least 1.
C20_ProcedureImpliesCountedRequest ==
  proc.pid # 0 => ctx.num_attach_request >= 1

\* The first Attach Request has created the procedure and has been counted.
C20_Witness ==
  /\ ev.name = "AttachRequest" /\ ev.path = <<"new">>
  /\ proc.pid # 0
  /\ ctx.num_attach_request = 1

\* C21: between two handlers, looking the context up by its current GUTI
\* returns the context exactly when the GUTI is present in the context; this
\* includes the time between the Attach Accept, which installs the new GUTI,
\* and the Attach Complete.
C21_GutiIndexConsistent ==
  mme_ue_context_exists_guti(ctx, ctx.guti) <=> ctx.guti_present

\* C22: an Attach Request of a UE for which no lookup finds a context is
\* handled by creating a context and starting an attach procedure; the
\* handler does not end in a fatal assertion.
C22_UnknownUeGetsContext ==
  ev.name = "AttachRequestUnknownUe" => (fatal = "none" /\ proc.pid # 0)

\* C23: an Attach Request whose IEs differ from those of the running attach
\* procedure, received while no Attach Accept has been sent and at least one
\* earlier request was counted, aborts the old procedure with
\* EMMREG_ATTACH_ABORT, creates a new procedure holding the new IEs and runs
\* the new procedure in the same handling.
C23_ChangedRequestBeforeAcceptRenews ==
  [][(/\ ev'.name = "AttachRequest" /\ proc.pid # 0 /\ ~proc.accept_emitted
      /\ ctx.num_attach_request >= 1 /\ ~EmergencyGate(ev'.req)
      /\ _emm_attach_ies_have_changed(ev'.req, proc.ies)) =>
       /\ \E i \in 1..Len(out') :
            out'[i].prim = "EMMREG_ATTACH_ABORT" /\ out'[i].pid = proc.pid
       /\ proc'.pid \notin {0, proc.pid}
       /\ proc'.ies = ev'.req
       /\ (RunStarted(out', proc'.pid) \/ fatal' = "todo_emergency")]_vars

\* An Attach Request that reaches tag R10_5_4_4_6_d: an identification is
\* running for an attach procedure whose counter attach_accept_sent is 0 and
\* whose flag attach_reject_sent is clear.
IdentificationCollision ==
  /\ ev'.name = "AttachRequest" /\ ~EmergencyGate(ev'.req)
  /\ is_nas_common_procedure_identification_running(St)
  /\ is_nas_specific_procedure_attach_running(St)
  /\ ~(is_nas_attach_accept_sent(proc) \/ is_nas_attach_reject_sent(proc))
  /\ common.is_cause_is_attach

\* C24: at an identification collision, a request with other IEs aborts the
\* old attach procedure, creates a new one with the new IEs and goes on to the
\* run step; a request with the same IEs is dropped and changes nothing.
C24_IdentificationCollision ==
  [][/\ (IdentificationCollision /\ _emm_attach_ies_have_changed(ev'.req, proc.ies)) =>
          /\ \E i \in 1..Len(out') :
               out'[i].prim = "EMMREG_ATTACH_ABORT" /\ out'[i].pid = proc.pid
          /\ proc'.pid \notin {0, proc.pid}
          /\ proc'.ies = ev'.req
          /\ (RunStarted(out', proc'.pid) \/ fatal' = "todo_emergency")
     /\ (IdentificationCollision /\ ~_emm_attach_ies_have_changed(ev'.req, proc.ies)) =>
          /\ ctx' = ctx /\ proc' = [proc EXCEPT !.quiet = FALSE] /\ common' = common
          /\ t3450_running' = t3450_running
          /\ ~Has(out', NasMessages)]_vars

\* The cause an Attach Reject of the procedure record p carries.
RejectCause(p) == IF p.emm_cause = "SUCCESS" THEN "ILLEGAL_UE" ELSE p.emm_cause

\* C25: when the failure continuation of the security mode control runs while
\* an attach procedure is in the registry, an Attach Reject is sent with the
\* cause of the procedure (ILLEGAL_UE when none was set) and the procedure is
\* removed.
C25_SecurityFailureRejects ==
  [][(ev'.name = "SecurityModeReject" /\ proc.pid # 0) =>
       /\ \E i \in 1..Len(out') : /\ out'[i].prim = "EMMAS_ESTABLISH_REJ"
                                  /\ out'[i].cause = RejectCause(proc)
       /\ proc'.pid = 0]_vars

\* C26: when the failure continuation of the identification runs while an
\* attach procedure is in the registry, an Attach Reject is sent with the
\* cause of the procedure (ILLEGAL_UE when none was set), and the continuation
\* does not end in a fatal assertion.
C26_IdentificationFailureRejects ==
  [][(ev'.name = "IdentificationFailure" /\ proc.pid # 0) =>
       /\ fatal' = "none"
       /\ \E i \in 1..Len(out') : /\ out'[i].prim = "EMMAS_ESTABLISH_REJ"
                                  /\ out'[i].cause = RejectCause(proc)]_vars

\* C27: when the security mode control has succeeded, the Attach Request
\* carried a PDN connectivity request and ESM returns SUCCESS for it, the ESM
\* response is stored as esm_msg_out, an Attach Accept carrying esm_msg_out
\* is emitted for the procedure, and T3450 is armed.
C27_EsmSuccessSendsAccept ==
  [][(ev'.name = "SecurityModeComplete" /\ proc.pid # 0 /\ ev'.path = <<"SUCCESS">>) =>
       /\ proc'.esm_msg_out # "NONE"
       /\ \E i \in 1..Len(out') : /\ out'[i].prim = "EMMAS_ESTABLISH_CNF"
                                  /\ out'[i].esm = proc'.esm_msg_out
                                  /\ out'[i].pid = proc.pid
       /\ t3450_running'
       /\ proc'.T3450 = "active"]_vars

\* The Attach Rejects of a step, and the step in which _emm_attach handed the
\* PDN connectivity request of a running Attach to ESM and ESM returned r.
AttachRejects(o) == {i \in 1..Len(o) : o[i].prim = "EMMAS_ESTABLISH_REJ"}
EsmReturned(r) ==
  ev'.name = "SecurityModeComplete" /\ proc.pid # 0 /\ ev'.path = <<r>>
EsmDiscardedIgnored ==
  EsmReturned("DISCARDED") =>
    /\ ~Has(out', AttachNasMessages)
    /\ proc' = [proc EXCEPT !.smc_done = TRUE, !.esm_handoff = TRUE, !.quiet = FALSE]

\* C28: when ESM returns an error other than DISCARDED with a response PDU,
\* emm_cause becomes ESM_FAILURE and exactly one Attach Reject is emitted, with
\* cause ESM_FAILURE and the ESM response PDU; when the error comes without a
\* response PDU, exactly one Attach Reject is emitted, with cause
\* PROTOCOL_ERROR and no ESM PDU; when ESM returns DISCARDED neither Accept nor
\* Reject is emitted and the procedure is left as it was.
C28_EsmFailureRejects ==
  [][/\ EsmReturned("FAILED") =>
          /\ proc'.emm_cause = "ESM_FAILURE"
          /\ Cardinality(AttachRejects(out')) = 1
          /\ \A i \in AttachRejects(out') :
               /\ out'[i].cause = "ESM_FAILURE"
               /\ out'[i].esm = "ESMREJ"
               /\ out'[i].pid = proc.pid
          /\ ~Has(out', {"EMMAS_ESTABLISH_CNF"})
     /\ EsmReturned("FAILED_NO_PDU") =>
          /\ proc'.emm_cause = "PROTOCOL_ERROR"
          /\ Cardinality(AttachRejects(out')) = 1
          /\ \A i \in AttachRejects(out') :
               /\ out'[i].cause = "PROTOCOL_ERROR"
               /\ out'[i].esm = "NONE"
               /\ out'[i].pid = proc.pid
          /\ ~Has(out', {"EMMAS_ESTABLISH_CNF"})
     /\ EsmDiscardedIgnored]_vars

\* C28 as stated: every ESM error other than DISCARDED, with or without a
\* response PDU, leaves emm_cause = ESM_FAILURE and one Attach Reject with
\* cause ESM_FAILURE carrying an ESM PDU.
C28_AnyEsmErrorRejectsWithEsmFailure ==
  [][/\ (EsmReturned("FAILED") \/ EsmReturned("FAILED_NO_PDU")) =>
          /\ proc'.emm_cause = "ESM_FAILURE"
          /\ Cardinality(AttachRejects(out')) = 1
          /\ \A i \in AttachRejects(out') :
               out'[i].cause = "ESM_FAILURE" /\ out'[i].esm # "NONE"
     /\ EsmDiscardedIgnored]_vars

\* C28 witness: ESM has just failed the PDN connectivity request with a
\* response PDU and the Attach Reject carrying it has been emitted.
C28_Witness ==
  /\ ev.name = "SecurityModeComplete"
  /\ ev.path = <<"FAILED">>
  /\ proc.pid # 0
  /\ proc.emm_cause = "ESM_FAILURE"
  /\ \E i \in 1..Len(out) : /\ out[i].prim = "EMMAS_ESTABLISH_REJ"
                            /\ out[i].cause = "ESM_FAILURE"
                            /\ out[i].esm = "ESMREJ"

\* The EMMREG_ATTACH_ABORT requests of a step, and the primitives of one kind
\* emitted after the i-th output of a step for the same procedure.
AttachAborts(o) == {i \in 1..Len(o) : o[i].prim = "EMMREG_ATTACH_ABORT"}
EmittedAfter(o, i, prim) ==
  {j \in (i + 1)..Len(o) : o[j].prim = prim /\ o[j].pid = o[i].pid}

\* C29: aborting an Attach procedure stops T3450, sends
\* ESM_PDN_CONNECTIVITY_REJ to ESM, emits EMMREG_ATTACH_REJ when the abort was
\* requested with notify = true and none when it was requested with
\* notify = false, and removes the procedure record; the
\* ESM_PDN_CONNECTIVITY_REJ comes before any EMMREG_ATTACH_REJ.
C29_AbortNotifiesOnlyOnRequest ==
  [][\A i \in AttachAborts(out') :
       /\ ~t3450_running'
       /\ proc'.pid # out'[i].pid
       /\ EmittedAfter(out', i, "ESM_PDN_CONNECTIVITY_REJ") # {}
       /\ \A j \in EmittedAfter(out', i, "EMMREG_ATTACH_REJ") :
            \E k \in EmittedAfter(out', i, "ESM_PDN_CONNECTIVITY_REJ") : k < j
       /\ out'[i].notify => EmittedAfter(out', i, "EMMREG_ATTACH_REJ") # {}
       /\ ~out'[i].notify => EmittedAfter(out', i, "EMMREG_ATTACH_REJ") = {}]_vars

\* The fields the IE-change predicate is to look at: a and b differ in one of
\* them.  "NONE" stands for an absent optional field, so a difference of
\* values covers a difference of presence.
IesFieldsDiffer(a, b) ==
  \/ a.type # b.type
  \/ a.is_native_sc # b.is_native_sc
  \/ a.ksi # b.ksi
  \/ a.is_native_guti # b.is_native_guti
  \/ a.guti # b.guti
  \/ a.imsi # b.imsi
  \/ a.imei # b.imei
  \/ a.last_visited_registered_tai # b.last_visited_registered_tai
  \/ a.originating_tai # b.originating_tai
  \/ a.originating_ecgi # b.originating_ecgi
  \/ a.ue_network_capability # b.ue_network_capability
  \/ a.ms_network_capability # b.ms_network_capability

\* C30: _emm_attach_ies_have_changed returns true exactly when the two
\* snapshots differ in attach type, native-SC flag, KSI, native-GUTI flag,
\* GUTI, IMSI, IMEI, last visited registered TAI, originating TAI, originating
\* ECGI, UE network capability or MS network capability (presence or value);
\* so two snapshots with different IMSI values have changed, and two that
\* differ in the ESM message only have not.
C30_IesChangedExactlyOnListedFields ==
  ev.name # "Init" => ev.path[1] = Bool(IesFieldsDiffer(ev.req, proc.ies))

\* Primitive prim was sent for procedure pid; the step in which
\* emm_proc_attach_request reached its run step with a procedure in the slot.
SentFor(o, pid, prim) == \E i \in 1..Len(o) : o[i].pid = pid /\ o[i].prim = prim
RunStepTaken ==
  /\ ev'.name = "AttachRequest"
  /\ fatal' = "none"
  /\ proc'.pid # 0
  /\ ~EmergencyGate(ev'.req)
  /\ ~Dropped(ev'.path)

\* C31: the run step starts the authentication and no identification when
\* the request carries an IMSI and its MAC matched; it starts the
\* identification with requested type IMSI, and no authentication, when the
\* request carries an IMSI whose MAC did not match or a GUTI and no IMSI; the
\* authentication of such a procedure is started by the success of its
\* identification, and never before it.
C31_RunStepBranching ==
  /\ [][/\ RunStepTaken =>
             /\ (proc'.ies.imsi # "NONE" /\ proc'.ies.mac_matched) =>
                  /\ SentFor(out', proc'.pid, "AUTHENTICATION_REQUEST")
                  /\ ~SentFor(out', proc'.pid, "IDENTITY_REQUEST")
             /\ (\/ proc'.ies.imsi # "NONE" /\ ~proc'.ies.mac_matched
                 \/ proc'.ies.imsi = "NONE" /\ proc'.ies.guti # "NONE") =>
                  /\ \E i \in 1..Len(out') : /\ out'[i].pid = proc'.pid
                                             /\ out'[i].prim = "IDENTITY_REQUEST"
                                             /\ out'[i].identity_type = "IDENTITY_TYPE_2_IMSI"
                  /\ ~SentFor(out', proc'.pid, "AUTHENTICATION_REQUEST")
        /\ (ev'.name = "IdentityResponse" /\ proc.pid # 0) =>
             SentFor(out', proc.pid, "AUTHENTICATION_REQUEST")]_vars
  /\ []((proc.pid # 0 /\ proc.ident_started /\ proc.auth_started) => proc.ident_done)
  /\ []((proc.pid # 0 /\ proc.ies.imsi # "NONE" /\ proc.ies.mac_matched) =>
          ~proc.ident_started)

\* C31 witness: the identification started for a request with an IMSI whose
\* MAC did not match has succeeded and the authentication was started by it.
C31_Witness ==
  /\ ev.name = "IdentityResponse"
  /\ proc.pid # 0
  /\ proc.ies.imsi # "NONE"
  /\ ~proc.ies.mac_matched
  /\ proc.ident_done
  /\ SentFor(out, proc.pid, "AUTHENTICATION_REQUEST")

\* C32: the step that emits the first Attach Accept of a procedure, other than
\* a T3450 expiry, leaves attach_accept_sent = 1, so that the collision check
\* of emm_proc_attach_request sees the procedure as "Accept sent".
C32_FirstAcceptCounted ==
  [][(/\ ev'.name # "T3450Handle"
      /\ proc'.pid # 0
      /\ proc'.accept_emitted
      /\ ~(proc.pid = proc'.pid /\ proc.accept_emitted)) =>
       /\ proc'.attach_accept_sent = 1
       /\ is_nas_attach_accept_sent(proc')]_vars

\* The steps whose handler calls _emm_send_attach_accept and leaves the timer
\* to it.
AcceptEmissionStep ==
  ev'.name \in {"SecurityModeComplete", "EsmPdnConnectivityRes", "T3450Handle"}

\* T3450 of the procedure in the slot is armed after the step and was not
\* armed for that procedure before it.
T3450NewlyArmed ==
  /\ proc'.pid # 0
  /\ proc'.T3450 = "active"
  /\ ~(proc.pid = proc'.pid /\ proc.T3450 = "active")

\* C33: an Accept-emission step arms T3450 only when it has sent the Attach
\* Accept of that procedure, and a T3450 expiry retransmits the Attach Accept
\* only for a procedure whose Attach Accept had been emitted, and its T3450
\* armed, before.
C33_AcceptBeforeTimerBeforeRetransmission ==
  [][/\ (AcceptEmissionStep /\ T3450NewlyArmed) =>
          SentFor(out', proc'.pid, "EMMAS_ESTABLISH_CNF")
     /\ (ev'.name = "T3450Handle" /\ Has(out', {"EMMAS_ESTABLISH_CNF"})) =>
          /\ proc.accept_emitted
          /\ SentFor(out', proc.pid, "EMMAS_ESTABLISH_CNF")]_vars

\* The step invoked _emm_send_attach_accept for the running procedure: after
\* the security mode control of a request without ESM message, through
\* emm_cn_wrapper_attach_accept, on a T3450 expiry below the retransmission
\* limit, or on the resend of case d.2.
AcceptEmissionInvoked ==
  /\ proc.pid # 0
  /\ \/ ev'.name = "SecurityModeComplete" /\ proc.ies.esm_msg = "NONE"
     \/ ev'.name = "EsmPdnConnectivityRes"
     \/ ev'.name = "T3450Handle" /\ proc.attach_accept_sent + 1 < ATTACH_COUNTER_MAX
     \/ ev'.name = "AttachRequest" /\ ev'.path = <<"d2">>

\* C34: Accept emission allocates a GUTI only when the context has none (seen
\* on the steps that do not change the context before invoking it); when
\* the allocation fails, the step emits no Attach Accept, does not arm T3450,
\* sends an Attach Reject for the procedure and ends the procedure, whichever
\* handler invoked the Accept emission.
C34_GutiAllocationFailureRejects ==
  [][AcceptEmissionInvoked =>
       /\ (ev'.name # "AttachRequest" /\ ctx'.guti_present /\ ctx'.guti # ctx.guti) =>
            ~ctx.guti_present
       /\ ~ctx'.guti_present =>
            /\ ~Has(out', {"EMMAS_ESTABLISH_CNF"})
            /\ ~T3450NewlyArmed
            /\ SentFor(out', proc.pid, "EMMAS_ESTABLISH_REJ")
            /\ proc'.pid = 0]_vars

(***************************************************************************)
(* The attach procedure with Attach Requests that meet a duplicate eNB     *)
(* association of their context.                                           *)
(***************************************************************************)
DupNext == Next \/ AttachRequestDuplicate

DupSpec == Init /\ [][DupNext]_vars

\* The removals mme_api_duplicate_enb_ue_s1ap_id_detected was called for while
\* the last request was handled.
Reconciliations(path) ==
  SelectSeq(path, LAMBDA t : t \in {"REMOVE_NEW_CONTEXT", "REMOVE_OLD_CONTEXT"})

\* C35: an Attach Request that met a duplicate eNB association is reconciled
\* exactly once on every path through the handler, with the flag cleared when
\* the handler returns; an initial request removes the new association and a
\* request that is not initial keeps the old one.
C35_DuplicateReconciledOnce ==
  (ev.name = "AttachRequest" /\ Len(ev.path) > 0 /\ ev.path[1] = "duplicate") =>
    /\ Len(Reconciliations(ev.path)) = 1
    /\ ev.path[Len(ev.path)] # "duplicate_left"
    /\ ev.req.is_initial => Reconciliations(ev.path) = <<"REMOVE_NEW_CONTEXT">>
    /\ ~ev.req.is_initial => Reconciliations(ev.path) # <<"REMOVE_OLD_CONTEXT">>

\* C36: abnormal case f.  An Attach Request handled while the context is in
\* EMM-REGISTERED and no Attach procedure is running creates exactly one
\* Attach procedure, with the IEs of the request, raises num_attach_request
\* by one and executes the run step for the new procedure.
C36_CaseFCreatesOneProcedure ==
  [][(/\ ev'.name = "AttachRequest"
      /\ ctx.emm_state = "REGISTERED"
      /\ proc.pid = 0
      /\ ~EmergencyGate(ev'.req)) =>
       /\ ev'.path = <<"f">>
       /\ proc'.pid = next_pid
       /\ next_pid' = next_pid + 1
       /\ proc'.ies = ev'.req
       /\ ctx'.num_attach_request = ctx.num_attach_request + 1
       /\ (RunStarted(out', proc'.pid) \/ fatal' = "todo_emergency")]_vars

\* C36 witness: a request has just been handled as case f and the first common
\* procedure of its new Attach procedure has been started.
C36_Witness ==
  /\ ev.name = "AttachRequest"
  /\ ev.path = <<"f">>
  /\ proc.pid # 0
  /\ proc.ies = ev.req
  /\ RunStarted(out, proc.pid)

\* C37: an Attach Request handled while a security mode control procedure is
\* running sends EMMREG_COMMON_PROC_ABORT with notify = false for it before
\* anything else, and no security mode control procedure is running once the
\* request has been handled.
C37_RequestAbortsRunningSmc ==
  [][(ev'.name = "AttachRequest" /\ common.smc /\ ~EmergencyGate(ev'.req)) =>
       /\ Len(out') > 0
       /\ out'[1].prim = "EMMREG_COMMON_PROC_ABORT"
       /\ ~out'[1].notify
       /\ out'[1].pid = proc.pid
       /\ ~common'.smc]_vars

\* C37 witness: a request with other IEs has aborted the running security mode
\* control procedure first and then renewed the Attach procedure (case e.1).
C37_Witness ==
  /\ ev.name = "AttachRequest"
  /\ ev.path = <<"e1">>
  /\ Len(out) > 1
  /\ out[1].prim = "EMMREG_COMMON_PROC_ABORT"
  /\ out[2].prim = "EMMREG_ATTACH_ABORT"
  /\ ~common.smc

\* C38: an Attach Request handled as case d.2 (same IEs, Attach Accept sent,
\* Attach Complete not received) emits exactly one Attach Accept and starts no
\* identification, authentication or security mode control procedure: the
\* run step is not executed again.
C38_ResendDoesNotRunAgain ==
  [][(ev'.name = "AttachRequest" /\ ev'.path = <<"d2">>) =>
       /\ Cardinality({i \in 1..Len(out') : out'[i].prim = "EMMAS_ESTABLISH_CNF"}) = 1
       /\ ~Has(out', CommonProcedureRequests)
       /\ proc'.pid = proc.pid]_vars

\* C39: a T3450 expiry handled after the procedure it was armed for has ended
\* is harmless.  With no Attach procedure running it changes nothing and emits
\* nothing; with a newer procedure running, for which no Attach Accept was
\* emitted and so no T3450 armed, it neither raises that procedure's
\* attach_accept_sent nor emits an Attach Accept.
C39_StaleExpiryHarmless ==
  [][/\ (ev'.name = "T3450Handle" /\ proc.pid = 0) =>
          /\ ctx' = ctx
          /\ proc' = proc
          /\ common' = common
          /\ t3450_running' = t3450_running
          /\ out' = <<>>
     /\ (ev'.name = "T3450Handle" /\ proc.pid # 0 /\ ~proc.accept_emitted) =>
          /\ proc'.attach_accept_sent = proc.attach_accept_sent
          /\ ~Has(out', {"EMMAS_ESTABLISH_CNF"})]_vars

\* C40: in Attach Complete handling of a running procedure, is_attached
\* becomes true and EMMREG_ATTACH_CNF is emitted only if ESM returned success;
\* if ESM returns an error other than DISCARDED, EMMREG_ATTACH_REJ is emitted,
\* is_attached stays false, the GUTI is not left newly marked valid, and the
\* procedure the primitive refers to has not been freed when it is sent.
C40_CompleteFollowsEsmResult ==
  [][(ev'.name = "AttachComplete" /\ proc.pid # 0) =>
       /\ ((ctx'.is_attached /\ ~ctx.is_attached) \/ Has(out', {"EMMREG_ATTACH_CNF"})) =>
            ev'.path = <<"SUCCESS">>
       /\ ev'.path[1] = "FAILED" =>
            /\ Has(out', {"EMMREG_ATTACH_REJ"})
            /\ ~ctx.is_attached => ~ctx'.is_attached
            /\ ~ctx.guti_valid => ~ctx'.guti_valid
            /\ ev'.path # <<"FAILED", "freed">>]_vars

====
